---------------------------- MODULE Spec2Model ----------------------------
(***************************************************************************)
(* Ingestion schedulers of the Pattaya news / video backend:               *)
(*   NewsScheduler             (scripts/alternative-scheduler.js)          *)
(*   AlternativeVideoScheduler (scripts/alternative-video-scheduler.js)    *)
(*   breaking-news service     (getSettings, processArticle)               *)
(*   scheduler controller and bootstrap (instances and their start)        *)
(*                                                                         *)
(* JavaScript strings are sequences of one-character strings, so that      *)
(* toLowerCase, includes, startsWith and endsWith are computed.  A         *)
(* JavaScript object is a function from the names of the fields it has; a  *)
(* field that is undefined is not in the DOMAIN.                           *)
(***************************************************************************)
EXTENDS Integers, Sequences, FiniteSets, TLC

VARIABLES
    callArgs,         \* arguments (and environment replies) of a single call under test
    callResult,       \* <<>> before the call has returned, <<value>> afterwards
    newsSchedulers,   \* the NewsScheduler objects: started, isRunning, fetchCount
    fetchNewsCalls,   \* per NewsScheduler, how many times fetchNews has been called
    newsCycles,       \* per NewsScheduler, the fetchNews calls that are past the guard
    newsLog,          \* per NewsScheduler, how its last cycle was logged
    articles,         \* the breaking-news collection, in creation order
    videoSchedulers,  \* the AlternativeVideoScheduler objects
    videoCycles,      \* per video scheduler, the performFetch calls in progress
    trendingChecks,   \* per video scheduler, checkTrendingTags calls in flight
    timers,           \* per video scheduler, pending setTimeout callbacks
    videos,           \* the videos collection, in creation order
    youtubeApiKey,    \* whether process.env.YOUTUBE_API_KEY is configured
    sigintListeners,  \* the schedulers whose SIGINT listener is registered, in order
    apiFaults,        \* whether requests to the API, the feeds and YouTube can fail in this run
    processExited     \* process.exit has been called

pureVars == <<callArgs, callResult>>

newsVars == <<newsSchedulers, fetchNewsCalls, newsCycles, newsLog, articles>>

videoVars == <<videoSchedulers, videoCycles, trendingChecks, timers, videos,
               youtubeApiKey, sigintListeners>>

schedulerVars == <<newsVars, videoVars, apiFaults, processExited>>

vars == <<pureVars, schedulerVars>>

\* the scheduler objects of one content type: the one bootstrap.js creates
\* and one created by a start request to the scheduler controller
SchedulerInstances == {"bootstrap", "manual"}

\* new NewsScheduler()
newNewsScheduler == [started |-> FALSE, isRunning |-> FALSE, fetchCount |-> 0]

\* new AlternativeVideoScheduler()
newVideoScheduler == [started |-> FALSE, isRunning |-> FALSE, cycleCount |-> 0, errors |-> 0]

\* no news scheduler has been started and the breaking-news collection is empty
NewsIdle ==
    /\ newsSchedulers = [i \in SchedulerInstances |-> newNewsScheduler]
    /\ fetchNewsCalls = [i \in SchedulerInstances |-> 0]
    /\ newsCycles = [i \in SchedulerInstances |-> <<>>]
    /\ newsLog = [i \in SchedulerInstances |-> "none"]
    /\ articles = <<>>

\* no video scheduler has been started and the videos collection is empty
VideoIdle ==
    /\ videoSchedulers = [i \in SchedulerInstances |-> newVideoScheduler]
    /\ videoCycles = [i \in SchedulerInstances |-> <<>>]
    /\ trendingChecks = [i \in SchedulerInstances |-> 0]
    /\ timers = [i \in SchedulerInstances |-> 0]
    /\ videos = <<>>
    /\ sigintListeners = <<>>

\* the schedulers take no part in the checks of a single call
SchedulersIdle ==
    NewsIdle /\ VideoIdle /\ youtubeApiKey = FALSE /\ apiFaults = FALSE /\ processExited = FALSE

\* how a request without a body of interest settles
Outcomes == IF apiFaults THEN {"ok", "error"} ELSE {"ok"}

\* those of the replies a request can settle with in this run
Settled(Replies) == IF apiFaults THEN Replies ELSE {r \in Replies : r.status = "ok"}

\* no single call is under test while the schedulers run
NoCall == callArgs = <<>> /\ callResult = <<>>

---------------------------------------------------------------------------
(* String primitives of JavaScript *)

toLowerChar(c) ==
    CASE c = "A" -> "a" [] c = "B" -> "b" [] c = "C" -> "c" [] c = "D" -> "d"
      [] c = "E" -> "e" [] c = "F" -> "f" [] c = "G" -> "g" [] c = "H" -> "h"
      [] c = "I" -> "i" [] c = "J" -> "j" [] c = "K" -> "k" [] c = "L" -> "l"
      [] c = "M" -> "m" [] c = "N" -> "n" [] c = "O" -> "o" [] c = "P" -> "p"
      [] c = "Q" -> "q" [] c = "R" -> "r" [] c = "S" -> "s" [] c = "T" -> "t"
      [] c = "U" -> "u" [] c = "V" -> "v" [] c = "W" -> "w" [] c = "X" -> "x"
      [] c = "Y" -> "y" [] c = "Z" -> "z" [] OTHER -> c

\* String.prototype.toLowerCase
toLowerCase(s) == [i \in 1..Len(s) |-> toLowerChar(s[i])]

\* String.prototype.includes: the empty string is included in every string
includes(s, k) ==
    \E i \in 0..(Len(s) - Len(k)) : SubSeq(s, i + 1, i + Len(k)) = k

\* String.prototype.startsWith
startsWith(s, k) == Len(k) <= Len(s) /\ SubSeq(s, 1, Len(k)) = k

\* String.prototype.endsWith
endsWith(s, k) == Len(k) <= Len(s) /\ SubSeq(s, Len(s) - Len(k) + 1, Len(s)) = k

\* the template literal `${a} ${b}`
Template2(a, b) == a \o <<" ">> \o b

\* o.f || d  for a field holding a list or an object
FieldOr(o, f, d) == IF f \in DOMAIN o THEN o[f] ELSE d

Range(s) == {s[i] : i \in 1..Len(s)}

\* all sequences over S of length at most n
SeqUpTo(S, n) == UNION {[1..k -> S] : k \in 0..n}

---------------------------------------------------------------------------
(* NewsScheduler: built-in settings and content moderation *)

kwSpam == <<"s","p","a","m">>
kwFake == <<"f","a","k","e">>
kwClickbait == <<"c","l","i","c","k","b","a","i","t">>
kwScam == <<"s","c","a","m">>
kwAdult == <<"a","d","u","l","t">>
kwExplicit == <<"e","x","p","l","i","c","i","t">>

builtInModerationKeywords == <<kwSpam, kwFake, kwClickbait, kwScam, kwAdult, kwExplicit>>

\* this.builtInNewsSettings (the fields the schedulers read)
builtInNewsSettings ==
    [ fetchIntervalMinutes    |-> 30,
      moderationKeywords      |-> builtInModerationKeywords,
      autoModerationEnabled   |-> TRUE,
      maxArticlesPerFetch     |-> 20,
      maxArticleLimit         |-> 21,
      maxArticleAgeHours      |-> 24,
      cleanupMode             |-> "both_count_and_age",
      cleanupFrequencyMinutes |-> 60,
      preservePinnedArticles  |-> TRUE,
      preserveBreakingNews    |-> TRUE,
      cleanupStats            |-> [totalDeleted |-> 0, lastDeletedCount |-> 0],
      enableAlgoliaSync       |-> FALSE ]

\* (a keyword compared as written, without toLowerCase)
KeywordFormNoLower(keyword) == keyword

\* keyword.toLowerCase() as shouldModerateContent applies it to each keyword
KeywordForm(keyword) == toLowerCase(keyword)

RECURSIVE ModerationLoop(_, _, _)
\* for (const keyword of moderationKeywords) { if (textToCheck.includes(...)) return ... }
ModerationLoop(moderationKeywords, i, textToCheck) ==
    IF i > Len(moderationKeywords)
      THEN [shouldModerate |-> FALSE, reason |-> <<>>]
      ELSE IF includes(textToCheck, KeywordForm(moderationKeywords[i]))
             THEN [shouldModerate |-> TRUE, reason |-> <<moderationKeywords[i]>>]
             ELSE ModerationLoop(moderationKeywords, i + 1, textToCheck)

\* NewsScheduler.shouldModerateContent(title, content, settings)
shouldModerateContent(title, content, settings) ==
    IF ~FieldOr(settings, "autoModerationEnabled", FALSE)
      THEN [shouldModerate |-> FALSE, reason |-> <<>>]
      ELSE ModerationLoop(FieldOr(settings, "moderationKeywords", <<>>), 1,
                          toLowerCase(Template2(title, content)))

---------------------------------------------------------------------------
(* Calls of shouldModerateContent on bounded inputs *)

MaxStrLen == 2
MaxKeywords == 2

\* titles and contents: every string over a lower-case letter, an upper-case
\* letter and nothing else, up to MaxStrLen characters
TextStrings == SeqUpTo({"a", "B"}, MaxStrLen)

\* keywords, of which one spans the separator of `${title} ${content}`
KeywordStrings == { <<"a">>, <<"A", "b">>, <<"b", " ", "a">> }

ScamTitle == <<"B","u","y"," ","n","o","w",","," ","l","i","m","i","t","e","d"," ","t","i","m","e"," ","s","c","a","m"," ","o","f","f","e","r">>
FakeTitle == <<"F","a","k","e"," ","n","e","w","s"," ","a","l","e","r","t">>
NormalTitle == <<"N","o","r","m","a","l"," ","n","e","w","s"," ","t","i","t","l","e">>
RegularContent == <<"R","e","g","u","l","a","r"," ","n","e","w","s"," ","c","o","n","t","e","n","t">>

ModerationSettings ==
    { [autoModerationEnabled |-> e, moderationKeywords |-> ks] :
          e \in BOOLEAN, ks \in SeqUpTo(KeywordStrings, MaxKeywords) }
    \cup { [autoModerationEnabled |-> e] : e \in BOOLEAN }
    \cup { [moderationKeywords |-> ks] : ks \in SeqUpTo(KeywordStrings, MaxKeywords) }

ModerationInputs ==
    { [title |-> t, content |-> c, settings |-> s] :
          t \in TextStrings, c \in TextStrings, s \in ModerationSettings }
    \cup { [title |-> t, content |-> c, settings |-> builtInNewsSettings] :
          t \in {ScamTitle, FakeTitle, NormalTitle}, c \in {<<>>, RegularContent} }

ModerationInit == callArgs \in ModerationInputs /\ callResult = <<>> /\ SchedulersIdle

ModerationCall ==
    /\ callResult = <<>>
    /\ callResult' = <<shouldModerateContent(callArgs.title, callArgs.content,
                                             callArgs.settings)>>
    /\ UNCHANGED <<callArgs, schedulerVars>>

ModerationNext == ModerationCall

SpecModeration == ModerationInit /\ [][ModerationNext]_vars

\* the keywords of a settings object that moderation is enabled with
EnabledKeywords(settings) ==
    IF "autoModerationEnabled" \in DOMAIN settings /\ settings.autoModerationEnabled
         /\ "moderationKeywords" \in DOMAIN settings
      THEN Range(settings.moderationKeywords)
      ELSE {}

\* C9: shouldModerateContent blocks exactly when auto-moderation is enabled and
\* the lower-cased `title content` text contains the lower-cased form of one of
\* the moderation keywords; with the built-in settings the title
\* 'Buy now, limited time scam offer' is blocked (and so is 'Fake news alert',
\* while 'Normal news title' is not).
C9_ModerationIffKeyword ==
    callResult # <<>> =>
        /\ callResult[1].shouldModerate <=>
              \E k \in EnabledKeywords(callArgs.settings) :
                 includes(toLowerCase(callArgs.title \o <<" ">> \o callArgs.content),
                          toLowerCase(k))
        /\ (callArgs.settings = builtInNewsSettings /\ callArgs.title \in {ScamTitle, FakeTitle})
              => callResult[1].shouldModerate
        /\ (callArgs.settings = builtInNewsSettings /\ callArgs.title = NormalTitle)
              => ~callResult[1].shouldModerate

\* a keyword written with an upper-case letter has blocked a title that holds
\* it in another case
C9_Witness ==
    /\ callResult # <<>>
    /\ callResult[1].shouldModerate
    /\ callResult[1].reason = << <<"A", "b">> >>
    /\ callArgs.title = <<"a", "B">>

---------------------------------------------------------------------------
(* Settings resolution: NewsScheduler.getNewsSettings and the breaking-news *)
(* service's getSettings                                                    *)

\* a completion of an async function: a returned value or a raised error
Returned(v) == [threw |-> FALSE, value |-> v]
Raised == [threw |-> TRUE]

\* (a merge in which the fields of a win)
ObjectSpreadFirstWins(a, b) ==
    [f \in DOMAIN a \cup DOMAIN b |-> IF f \in DOMAIN a THEN a[f] ELSE b[f]]

\* { ...a, ...b }: the fields of b win
ObjectSpread(a, b) ==
    [f \in DOMAIN a \cup DOMAIN b |-> IF f \in DOMAIN b THEN b[f] ELSE a[f]]

\* (a catch block that lets the error escape)
NewsSettingsCatchRethrow == Raised

\* catch (error) { ...; return this.builtInNewsSettings; }
NewsSettingsCatch == Returned(builtInNewsSettings)

\* the try block of getNewsSettings.  reply is what axios.get settles with:
\* status "error" (rejected), or status "ok" with body <<>> (no body) or
\* <<b>>; b.data is <<>> for null and <<o>> for an object o.
NewsSettingsTry(reply) ==
    IF reply.status = "error" THEN Raised
    ELSE IF reply.body = <<>> THEN Raised      \* settingsResponse.data.data on undefined
    ELSE LET body == reply.body[1] IN
         IF "data" \in DOMAIN body /\ body.data # <<>>
              /\ Cardinality(DOMAIN body.data[1]) > 0
           THEN Returned(ObjectSpread(builtInNewsSettings, body.data[1]))
           ELSE Returned(builtInNewsSettings)

\* NewsScheduler.getNewsSettings
getNewsSettings(reply) ==
    IF NewsSettingsTry(reply).threw THEN NewsSettingsCatch ELSE NewsSettingsTry(reply)

\* the object literal getSettings falls back to
serviceDefaultSettings ==
    [ fetchIntervalMinutes  |-> 30,
      moderationKeywords    |-> builtInModerationKeywords,
      autoModerationEnabled |-> TRUE,
      maxArticlesPerFetch   |-> 20,
      cronJobEnabled        |-> TRUE,
      newsApiCountry        |-> "us",
      newsApiCategory       |-> "general" ]

\* breaking-news service getSettings.  found is what entityService.findMany
\* settles with: status "error", or status "ok" with value <<>> (null or
\* undefined) or <<o>> for an object o, which is truthy also when it is empty.
getSettings(found) ==
    IF found.status = "error" THEN Returned(serviceDefaultSettings)
    ELSE IF found.value = <<>> THEN Returned(serviceDefaultSettings)
    ELSE Returned(found.value[1])

\* stored settings objects: every choice of some of these fields
StoredFieldValues(f) ==
    CASE f = "fetchIntervalMinutes" -> {0, 5}
      [] f = "maxArticleLimit"      -> {10}
      [] f = "maxArticlesPerFetch"  -> {0, 2}
      [] f = "maxContentLength"     -> {100}

StoredFields == {"fetchIntervalMinutes", "maxArticleLimit", "maxArticlesPerFetch", "maxContentLength"}

StoredSettingsObjects ==
    UNION { { o \in [D -> {0, 2, 5, 10, 100}] : \A f \in D : o[f] \in StoredFieldValues(f) } :
            D \in SUBSET StoredFields }

EmptyObject == [f \in {} |-> 0]

NewsSettingsReplies ==
    { [status |-> "error"], [status |-> "ok", body |-> <<>>],
      [status |-> "ok", body |-> << EmptyObject >>],
      [status |-> "ok", body |-> << [data |-> <<>>] >>] }
    \cup { [status |-> "ok", body |-> << [data |-> <<o>>] >>] : o \in StoredSettingsObjects }

FindManyOutcomes ==
    { [status |-> "error"], [status |-> "ok", value |-> <<>>] }
    \cup { [status |-> "ok", value |-> <<o>>] : o \in StoredSettingsObjects }

SettingsInit ==
    /\ SchedulersIdle
    /\ callArgs \in { [fn |-> "getNewsSettings", reply |-> r] : r \in NewsSettingsReplies }
                    \cup { [fn |-> "getSettings", reply |-> r] : r \in FindManyOutcomes }
    /\ callResult = <<>>

GetNewsSettingsCall ==
    /\ callResult = <<>>
    /\ callArgs.fn = "getNewsSettings"
    /\ callResult' = <<getNewsSettings(callArgs.reply)>>
    /\ UNCHANGED <<callArgs, schedulerVars>>

GetSettingsCall ==
    /\ callResult = <<>>
    /\ callArgs.fn = "getSettings"
    /\ callResult' = <<getSettings(callArgs.reply)>>
    /\ UNCHANGED <<callArgs, schedulerVars>>

SettingsNext == GetNewsSettingsCall \/ GetSettingsCall

SpecSettings == SettingsInit /\ [][SettingsNext]_vars

\* the store is unreachable, returns nothing, or returns an empty object
StoreUnreachable == callArgs.reply.status = "error"

StoreReturnsNothing ==
    /\ callArgs.reply.status = "ok"
    /\ IF callArgs.fn = "getSettings" THEN callArgs.reply.value = <<>>
       ELSE \/ callArgs.reply.body = <<>>
            \/ "data" \notin DOMAIN callArgs.reply.body[1]
            \/ callArgs.reply.body[1].data = <<>>

StoreReturnsEmptyObject ==
    /\ callArgs.reply.status = "ok"
    /\ IF callArgs.fn = "getSettings"
         THEN callArgs.reply.value = << EmptyObject >>
         ELSE /\ callArgs.reply.body # <<>>
              /\ "data" \in DOMAIN callArgs.reply.body[1]
              /\ callArgs.reply.body[1].data = << EmptyObject >>

BuiltInDefaultOf(fn) ==
    IF fn = "getSettings" THEN serviceDefaultSettings ELSE builtInNewsSettings

ReturnsBuiltInDefault ==
    /\ ~callResult[1].threw
    /\ callResult[1].value = BuiltInDefaultOf(callArgs.fn)
    /\ callResult[1].value.fetchIntervalMinutes = 30

StoredSettingsFound ==
    /\ callArgs.fn = "getNewsSettings"
    /\ callArgs.reply.status = "ok"
    /\ callArgs.reply.body # <<>>
    /\ "data" \in DOMAIN callArgs.reply.body[1]
    /\ callArgs.reply.body[1].data # <<>>
    /\ DOMAIN callArgs.reply.body[1].data[1] # {}

StoredSettings == callArgs.reply.body[1].data[1]

\* C11: when the settings store returns a non-empty, possibly partial,
\* settings object, getNewsSettings returns, field by field, the stored value
\* of every field the stored object has and the built-in default of every
\* field it lacks; a stored value wins over the built-in one.
C11_StoredFieldsOverDefaults ==
    (callResult # <<>> /\ StoredSettingsFound) =>
        /\ ~callResult[1].threw
        /\ DOMAIN callResult[1].value
              = DOMAIN builtInNewsSettings \cup DOMAIN StoredSettings
        /\ \A f \in DOMAIN callResult[1].value :
              callResult[1].value[f] =
                 IF f \in DOMAIN StoredSettings THEN StoredSettings[f]
                 ELSE builtInNewsSettings[f]

\* getNewsSettings has merged a partial stored object: the stored
\* fetchIntervalMinutes replaces the built-in 30 and the absent
\* maxArticleLimit is the built-in one
C11_Witness ==
    /\ callResult # <<>>
    /\ StoredSettingsFound
    /\ "fetchIntervalMinutes" \in DOMAIN StoredSettings
    /\ StoredSettings.fetchIntervalMinutes # builtInNewsSettings.fetchIntervalMinutes
    /\ "maxArticleLimit" \notin DOMAIN StoredSettings
    /\ callResult[1].value.fetchIntervalMinutes = StoredSettings.fetchIntervalMinutes
    /\ callResult[1].value.maxArticleLimit = builtInNewsSettings.maxArticleLimit

---------------------------------------------------------------------------
(* Trust / approval: AlternativeVideoScheduler.determineApprovalStatus *)

MaxTrustRecords == 2

ChannelIds == {"UC1", "UC2"}

\* records of the trusted-channels-videos collection
TrustRecords ==
    [ channel_id : ChannelIds, active : BOOLEAN,
      verification_status : {"Verified", "Pending"}, auto_approve : BOOLEAN ]

\* (a query that forgets filters[active][$eq]=true)
TrustedChannelsQueryAnyActive(store, channelId) ==
    SelectSeq(store, LAMBDA r : r.channel_id = channelId)

\* GET trusted-channels-videos?filters[channel_id][$eq]=..&filters[active][$eq]=true
\* as the store answers it: the matching records, in stored order
TrustedChannelsQuery(store, channelId) ==
    SelectSeq(store, LAMBDA r : r.channel_id = channelId /\ r.active)

\* determineApprovalStatus(channelId).  lookup is how the GET settles: "ok",
\* "null" (a body whose data is null) or "error".
determineApprovalStatus(channelId, store, lookup) ==
    IF lookup = "error" THEN "Pending Review"
    ELSE LET trustedChannels ==
                 IF lookup = "null" THEN <<>> ELSE TrustedChannelsQuery(store, channelId)
         IN  IF /\ Len(trustedChannels) > 0
                /\ trustedChannels[1].verification_status = "Verified"
                /\ trustedChannels[1].auto_approve
               THEN "Approved"
               ELSE "Pending Review"

ApprovalInit ==
    /\ SchedulersIdle
    /\ callArgs \in [ channelId : ChannelIds,
                      store : SeqUpTo(TrustRecords, MaxTrustRecords),
                      lookup : {"ok", "null", "error"} ]
    /\ callResult = <<>>

DetermineApprovalCall ==
    /\ callResult = <<>>
    /\ callResult' = <<determineApprovalStatus(callArgs.channelId, callArgs.store,
                                               callArgs.lookup)>>
    /\ UNCHANGED <<callArgs, schedulerVars>>

ApprovalNext == DetermineApprovalCall

SpecApproval == ApprovalInit /\ [][ApprovalNext]_vars

\* the places of the store's active records of the channel asked about
MatchingActive == { i \in 1..Len(callArgs.store) :
                       /\ callArgs.store[i].channel_id = callArgs.channelId
                       /\ callArgs.store[i].active }

AutoApproved(r) == r.verification_status = "Verified" /\ r.auto_approve

\* C6 as stated: Approved exactly when the lookup answers and some active
\* trust record of the channel is Verified with auto_approve set; Pending
\* Review in every other case.
C6_ApprovedIffSomeRecord ==
    callResult # <<>> =>
        /\ callResult[1] \in {"Approved", "Pending Review"}
        /\ callResult[1] = "Approved" <=>
              /\ callArgs.lookup = "ok"
              /\ \E i \in MatchingActive : AutoApproved(callArgs.store[i])

\* C6 as amended: Approved exactly when the lookup answers and the first
\* active trust record of the channel (the only one consulted) is Verified
\* with auto_approve set; Pending Review in every other case, so Approved is
\* never returned for a channel without such a record.
C6_ApprovedIffFirstRecord ==
    callResult # <<>> =>
        /\ callResult[1] \in {"Approved", "Pending Review"}
        /\ callResult[1] = "Approved" <=>
              /\ callArgs.lookup = "ok"
              /\ MatchingActive # {}
              /\ \E i \in MatchingActive :
                    /\ \A j \in MatchingActive : i <= j
                    /\ AutoApproved(callArgs.store[i])
        /\ callResult[1] = "Approved" =>
              \E i \in MatchingActive : AutoApproved(callArgs.store[i])

\* a channel has been approved although the store also holds a record of it
\* that is not active
C6_Witness ==
    /\ callResult = <<"Approved">>
    /\ \E i \in 1..Len(callArgs.store) :
          callArgs.store[i].channel_id = callArgs.channelId /\ ~callArgs.store[i].active

---------------------------------------------------------------------------
(* Content filtering: AlternativeVideoScheduler.isContentFiltered *)

kwIllegal == <<"i","l","l","e","g","a","l">>
kwDangerous == <<"d","a","n","g","e","r","o","u","s">>
kwGambling == <<"g","a","m","b","l","i","n","g">>

\* this.builtInBannedKeywords
builtInBannedKeywords ==
    << [Keyword |-> kwScam,      MatchType |-> "contains", IsActive |-> TRUE],
       [Keyword |-> kwFake,      MatchType |-> "contains", IsActive |-> TRUE],
       [Keyword |-> kwIllegal,   MatchType |-> "contains", IsActive |-> TRUE],
       [Keyword |-> kwDangerous, MatchType |-> "contains", IsActive |-> TRUE],
       [Keyword |-> kwAdult,     MatchType |-> "contains", IsActive |-> TRUE],
       [Keyword |-> kwGambling,  MatchType |-> "contains", IsActive |-> TRUE] >>

\* GET banned-channels-videos?filters[channel_id][$eq]=..&filters[active][$eq]=true
BannedChannelsQuery(store, channelId) ==
    SelectSeq(store, LAMBDA r : r.channel_id = channelId /\ r.active)

\* (a query that forgets filters[active][$eq]=true)
BannedKeywordsQueryAll(store) == store

\* GET banned-keywords-videos?filters[active][$eq]=true
BannedKeywordsQuery(store) ==
    SelectSeq(store, LAMBDA r : "active" \in DOMAIN r /\ r.active)

\* the text a rule is matched against
TextToCheck(appliesTo, title, description) ==
    IF appliesTo = "Title" THEN toLowerCase(title)
    ELSE IF appliesTo = "Description" THEN toLowerCase(description)
    ELSE toLowerCase(Template2(title, description))      \* 'All' or other cases

\* (every strategy treated as 'Contains')
IsMatchContainsOnly(matchType, textToCheck, keyword) == includes(textToCheck, keyword)

\* switch (matchType)
IsMatch(matchType, textToCheck, keyword) ==
    CASE matchType = "Exact"       -> textToCheck = keyword
      [] matchType = "Contains"    -> includes(textToCheck, keyword)
      [] matchType = "Starts With" -> startsWith(textToCheck, keyword)
      [] matchType = "Ends With"   -> endsWith(textToCheck, keyword)
      [] OTHER                     -> includes(textToCheck, keyword)

RECURSIVE BannedKeywordLoop(_, _, _, _)
\* for (const keywordObj of bannedKeywords) { ... if (isMatch) return true; }
\* keywordObj.keyword.toLowerCase() raises a TypeError on a rule without keyword
BannedKeywordLoop(bannedKeywords, i, title, description) ==
    IF i > Len(bannedKeywords) THEN Returned(FALSE)
    ELSE LET keywordObj == bannedKeywords[i] IN
         IF "keyword" \notin DOMAIN keywordObj THEN Raised
         ELSE LET keyword == toLowerCase(keywordObj.keyword)
                  matchType == FieldOr(keywordObj, "match_type", "Contains")
                  appliesTo == FieldOr(keywordObj, "applies_to", "All")
              IN  IF IsMatch(matchType, TextToCheck(appliesTo, title, description), keyword)
                    THEN Returned(TRUE)
                    ELSE BannedKeywordLoop(bannedKeywords, i + 1, title, description)

\* the try block of isContentFiltered.  env holds the two collections and how
\* each GET settles ("ok", "null" for a body whose data is null, "error").
ContentFilteredTry(title, description, channelId, env) ==
    IF env.channelLookup = "error" THEN Raised
    ELSE LET bannedChannels ==
                 IF env.channelLookup = "null" THEN <<>>
                 ELSE BannedChannelsQuery(env.bannedChannels, channelId)
         IN  IF Len(bannedChannels) > 0 /\ bannedChannels[1].ban_level # "Under Review"
               THEN Returned(TRUE)
             ELSE IF env.keywordLookup = "error" THEN Raised
             ELSE LET bannedKeywords ==
                          IF env.keywordLookup = "null" THEN builtInBannedKeywords
                          ELSE BannedKeywordsQuery(env.bannedKeywords)
                  IN  BannedKeywordLoop(bannedKeywords, 1, title, description)

\* isContentFiltered(title, description, channelId): catch returns false
isContentFiltered(title, description, channelId, env) ==
    IF ContentFilteredTry(title, description, channelId, env).threw
      THEN FALSE
      ELSE ContentFilteredTry(title, description, channelId, env).value

---------------------------------------------------------------------------
(* Calls of isContentFiltered on bounded inputs *)

MaxRules == 2

\* records of banned-keywords-videos: one keyword under every strategy and
\* scope, inactive rules, a keyword in upper case, a rule with neither
\* match_type nor applies_to, a keyword that equals a whole
\* `title description` text, and a rule that has no keyword field
FilterRules ==
    [ keyword : {<<"a">>},
      match_type : {"Exact", "Contains", "Starts With", "Ends With"},
      applies_to : {"Title", "Description", "All"},
      active : {TRUE} ]
    \cup { [keyword |-> <<"a">>, match_type |-> "Contains", applies_to |-> "All", active |-> FALSE],
           [keyword |-> <<"a">>, match_type |-> "Exact", applies_to |-> "Title", active |-> FALSE],
           [keyword |-> <<"a">>, match_type |-> "Ends With", applies_to |-> "Description", active |-> FALSE],
           [keyword |-> <<"A">>, match_type |-> "Contains", applies_to |-> "Title", active |-> TRUE],
           [keyword |-> <<"a">>, active |-> TRUE],
           [keyword |-> <<"b", " ", "b", "a">>, match_type |-> "Exact", applies_to |-> "All", active |-> TRUE],
           [match_type |-> "Contains", applies_to |-> "All", active |-> TRUE] }

FilterTitles == { <<"A">>, <<"a", "B">>, <<"B", "A">>, <<"B">> }
FilterDescriptions == { <<>>, <<"B", "a">> }

BannedChannelRecords ==
    [ channel_id : ChannelIds, active : BOOLEAN, ban_level : {"Permanent", "Under Review"} ]

FilterInputs ==
    { [ title |-> t, description |-> d, channelId |-> "UC1",
        env |-> [ channelLookup |-> "ok", bannedChannels |-> <<>>,
                  keywordLookup |-> "ok", bannedKeywords |-> rules ] ] :
          t \in FilterTitles, d \in FilterDescriptions,
          rules \in SeqUpTo(FilterRules, MaxRules) }
    \cup
    { [ title |-> t, description |-> <<>>, channelId |-> "UC1",
        env |-> [ channelLookup |-> cl, bannedChannels |-> bc,
                  keywordLookup |-> kl, bannedKeywords |-> rules ] ] :
          t \in { <<"A">>, kwScam },
          cl \in {"ok", "null", "error"}, kl \in {"ok", "null", "error"},
          bc \in SeqUpTo(BannedChannelRecords, 1),
          rules \in { <<>>,
                      << [keyword |-> <<"a">>, match_type |-> "Contains",
                          applies_to |-> "All", active |-> TRUE] >> } }

FilterInit == callArgs \in FilterInputs /\ callResult = <<>> /\ SchedulersIdle

ContentFilteredCall ==
    /\ callResult = <<>>
    /\ callResult' = <<isContentFiltered(callArgs.title, callArgs.description,
                                         callArgs.channelId, callArgs.env)>>
    /\ UNCHANGED <<callArgs, schedulerVars>>

FilterNext == ContentFilteredCall

SpecFilter == FilterInit /\ [][FilterNext]_vars

\* k occurs in text at offset off
OccursAt(text, k, off) ==
    /\ off >= 0
    /\ off + Len(k) <= Len(text)
    /\ \A j \in 1..Len(k) : text[off + j] = k[j]

\* the rule's scoped, lower-cased match under its strategy
RuleMatches(rule, title, description) ==
    LET scope == IF "applies_to" \in DOMAIN rule THEN rule.applies_to ELSE "All"
        strategy == IF "match_type" \in DOMAIN rule THEN rule.match_type ELSE "Contains"
        text == toLowerCase(CASE scope = "Title" -> title
                              [] scope = "Description" -> description
                              [] OTHER -> title \o <<" ">> \o description)
        k == toLowerCase(rule.keyword)
    IN  CASE strategy = "Exact"       -> Len(text) = Len(k) /\ OccursAt(text, k, 0)
          [] strategy = "Starts With" -> OccursAt(text, k, 0)
          [] strategy = "Ends With"   -> OccursAt(text, k, Len(text) - Len(k))
          [] OTHER                    -> \E off \in 0..Len(text) : OccursAt(text, k, off)

\* the stored rules that are active
ActiveRules == { r \in Range(callArgs.env.bannedKeywords) : "active" \in DOMAIN r /\ r.active }

\* both lookups answer, no ban record of the channel is active, and every
\* active rule has a keyword
KeywordStageDecides ==
    /\ callArgs.env.channelLookup = "ok"
    /\ callArgs.env.keywordLookup = "ok"
    /\ \A i \in 1..Len(callArgs.env.bannedChannels) :
          ~(callArgs.env.bannedChannels[i].channel_id = callArgs.channelId
            /\ callArgs.env.bannedChannels[i].active)
    /\ \A r \in ActiveRules : "keyword" \in DOMAIN r

---------------------------------------------------------------------------
(* Content safety: AlternativeVideoScheduler.isContentSafe and the          *)
(* classification of one search result in fetchRealYouTubeVideos           *)

\* k => k.IsActive
IsActiveRule(k) == "IsActive" \in DOMAIN k /\ k.IsActive

\* steps 1 and 2 of isContentSafe: the content-type keywords when the GET
\* answers with at least one active keyword, else the built-in keywords.
\* lookup "null" is a body whose data is null (data.filter raises inside try).
SafetyKeywords(safety) ==
    LET contentTypeKeywords ==
            IF safety.lookup = "ok" THEN SelectSeq(safety.keywords, IsActiveRule) ELSE <<>>
    IN  IF Len(contentTypeKeywords) > 0
          THEN contentTypeKeywords
          ELSE SelectSeq(builtInBannedKeywords, IsActiveRule)

RECURSIVE SafetyLoop(_, _, _, _)
\* step 3 of isContentSafe; only rules whose MatchType is 'contains' are looked at,
\* and bannedKeyword.Keyword.toLowerCase() raises on a rule without Keyword
SafetyLoop(bannedKeywords, i, title, description) ==
    IF i > Len(bannedKeywords) THEN Returned(TRUE)
    ELSE LET bannedKeyword == bannedKeywords[i] IN
         IF "Keyword" \notin DOMAIN bannedKeyword THEN Raised
         ELSE LET keyword == toLowerCase(bannedKeyword.Keyword) IN
              IF /\ "MatchType" \in DOMAIN bannedKeyword
                 /\ bannedKeyword.MatchType = "contains"
                 /\ (includes(title, keyword) \/ includes(description, keyword))
                THEN Returned(FALSE)
                ELSE SafetyLoop(bannedKeywords, i + 1, title, description)

\* isContentSafe(video, topic)
isContentSafe(title, description, safety) ==
    SafetyLoop(SafetyKeywords(safety), 1, toLowerCase(title), toLowerCase(description))

\* what fetchRealYouTubeVideos does with one search result: "create" it,
\* skip it as "unsafe" (isContentSafe false) or "filtered" (isContentFiltered
\* true), or leave the loop with the error isContentSafe "raised"
ClassifyVideo(title, description, channelId, env) ==
    LET safe == isContentSafe(title, description, env.safety) IN
    IF safe.threw THEN "raised"
    ELSE IF ~safe.value THEN "unsafe"
    ELSE IF isContentFiltered(title, description, channelId, env) THEN "filtered"
    ELSE "create"

MaxSafetyRules == 2

\* records of content-safety-keywords
SafetyRules ==
    { [Keyword |-> kwScam, MatchType |-> "contains", IsActive |-> TRUE],
      [Keyword |-> kwSpam, MatchType |-> "contains", IsActive |-> TRUE],
      [Keyword |-> kwScam, MatchType |-> "exact", IsActive |-> TRUE],
      [Keyword |-> kwScam, MatchType |-> "contains", IsActive |-> FALSE],
      [MatchType |-> "contains", IsActive |-> TRUE] }

SafetyInputs ==
    { [ title |-> t, description |-> d, channelId |-> "UC1",
        env |-> [ safety |-> [lookup |-> sl, keywords |-> sk],
                  channelLookup |-> cl, bannedChannels |-> bc,
                  keywordLookup |-> kl, bannedKeywords |-> rules ] ] :
          t \in { <<"S", "c", "a", "m">>, <<"o", "k">> },
          d \in { <<>>, kwFake },
          sl \in {"ok", "null", "error"},
          sk \in SeqUpTo(SafetyRules, MaxSafetyRules),
          cl \in {"ok", "error"},
          bc \in { <<>>, << [channel_id |-> "UC1", active |-> TRUE, ban_level |-> "Permanent"] >> },
          kl \in {"ok", "null", "error"},
          rules \in { <<>>,
                      << [keyword |-> kwScam, match_type |-> "Contains",
                          applies_to |-> "All", active |-> TRUE] >> } }

SafetyInit == callArgs \in SafetyInputs /\ callResult = <<>> /\ SchedulersIdle

ClassifyVideoCall ==
    /\ callResult = <<>>
    /\ callResult' = <<ClassifyVideo(callArgs.title, callArgs.description,
                                     callArgs.channelId, callArgs.env)>>
    /\ UNCHANGED <<callArgs, schedulerVars>>

SafetyNext == ClassifyVideoCall

SpecSafety == SafetyInit /\ [][SafetyNext]_vars

\* one of the three rule lookups of the classification is rejected
SomeRuleLookupFails ==
    \/ callArgs.env.safety.lookup = "error"
    \/ callArgs.env.channelLookup = "error"
    \/ callArgs.env.keywordLookup = "error"

\* the lower-cased title or description contains a built-in banned keyword
HoldsBuiltInKeyword ==
    \E i \in 1..Len(builtInBannedKeywords) :
       \/ includes(toLowerCase(callArgs.title), builtInBannedKeywords[i].Keyword)
       \/ includes(toLowerCase(callArgs.description), builtInBannedKeywords[i].Keyword)

\* C8: when a lookup of the banned rules fails, an item whose title or
\* description contains a built-in banned keyword is blocked (the built-in
\* rules are applied instead of allowing it unchecked), and the lookup failure
\* is not raised out of the classification.
C8_BuiltInRulesOnLookupFailure ==
    (callResult # <<>> /\ SomeRuleLookupFails) =>
        /\ HoldsBuiltInKeyword => callResult[1] \in {"unsafe", "filtered", "raised"}
        /\ (\A i \in 1..Len(callArgs.env.safety.keywords) :
               "Keyword" \in DOMAIN callArgs.env.safety.keywords[i])
              => callResult[1] # "raised"

---------------------------------------------------------------------------
(* NewsScheduler: start, the interval callback and the steps of fetchNews   *)

MaxFetchNewsCalls == 3

MaxArticles == 3

\* this.builtInNewsSources
builtInNewsSources ==
    << [id |-> "fallback-1", name |-> "Pattaya Mail", url |-> "http://www.pattayamail.com/rss.xml",
        sourceType |-> "rss_feed", isActive |-> TRUE, priority |-> 1],
       [id |-> "fallback-2", name |-> "The Pattaya News", url |-> "http://thepattayanews.com/feed/",
        sourceType |-> "rss_feed", isActive |-> TRUE, priority |-> 1],
       [id |-> "fallback-3", name |-> "Bangkok Post", url |-> "http://www.bangkokpost.com/rss/data/news.xml",
        sourceType |-> "rss_feed", isActive |-> TRUE, priority |-> 2],
       [id |-> "fallback-4", name |-> "The Nation Thailand", url |-> "http://www.nationthailand.com/rss/home.xml",
        sourceType |-> "rss_feed", isActive |-> TRUE, priority |-> 2] >>

\* what GET /api/news-sources settles with: rejected, or a body whose data
\* holds no record, or an active feed between an inactive feed and an
\* active source that is no feed
NewsSourcesReplies ==
    { [status |-> "error"],
      [status |-> "ok", data |-> <<>>],
      [status |-> "ok",
       data |-> << [id |-> "1", name |-> "Inactive", url |-> "http://inactive/rss",
                    sourceType |-> "rss_feed", isActive |-> FALSE],
                   [id |-> "2", name |-> "Api", sourceType |-> "news_api", isActive |-> TRUE],
                   [id |-> "3", name |-> "Feed", url |-> "http://feed/rss",
                    sourceType |-> "rss_feed", isActive |-> TRUE] >>] }

\* (the store's sources taken without looking at isActive)
ActiveSourcesUnfiltered(reply) ==
    IF reply.status = "error" THEN builtInNewsSources
    ELSE IF Len(reply.data) > 0 THEN reply.data ELSE builtInNewsSources

\* the first lines of the try block: the sources this cycle goes through
ActiveSources(reply) ==
    IF reply.status = "error" THEN builtInNewsSources
    ELSE LET activeSources == SelectSeq(reply.data, LAMBDA src : src.isActive = TRUE)
         IN  IF Len(activeSources) > 0 THEN activeSources ELSE builtInNewsSources

\* source.sourceType === 'rss_feed' && source.url
IsFeedSource(source) == source.sourceType = "rss_feed" /\ "url" \in DOMAIN source

\* items of a feed: link, title and contentSnippet
FeedItems ==
    [ a |-> [link |-> "u1", title |-> <<"o", "k">>, contentSnippet |-> <<"n", "e", "w", "s">>],
      b |-> [link |-> "u2", title |-> <<"o", "k">>, contentSnippet |-> <<>>],
      s |-> [link |-> "u3", title |-> <<"S", "c", "a", "m">>, contentSnippet |-> <<>>] ]

\* what parser.parseURL settles with
FeedReplies ==
    { [status |-> "error"],
      [status |-> "ok", items |-> <<FeedItems.a, FeedItems.b>>],
      [status |-> "ok", items |-> <<FeedItems.s, FeedItems.a>>] }

\* what GET /api/news-settings settles with during a cycle
CycleSettingsReplies ==
    { [status |-> "error"],
      [status |-> "ok",
       body |-> << [data |-> << [maxArticlesPerFetch |-> 1, maxArticleLimit |-> 1] >>] >>] }

\* feed.items.slice(0, settings.maxArticlesPerFetch || 2)
FeedSlice(items, settings) ==
    LET maxArticlesPerFetch ==
            IF settings.maxArticlesPerFetch = 0 THEN 2 ELSE settings.maxArticlesPerFetch
    IN  SubSeq(items, 1, IF maxArticlesPerFetch < Len(items) THEN maxArticlesPerFetch ELSE Len(items))

\* (item.contentSnippet || ...).substring(0, settings.maxContentLength || 500)
CleanContent(item, settings) ==
    LET maxContentLength ==
            IF "maxContentLength" \in DOMAIN settings /\ settings.maxContentLength # 0
              THEN settings.maxContentLength ELSE 500
    IN  SubSeq(item.contentSnippet, 1,
               IF maxContentLength < Len(item.contentSnippet)
                 THEN maxContentLength ELSE Len(item.contentSnippet))

\* (a lookup that never finds the URL)
UrlNeverStored(link) == FALSE

\* existing.data.data.length > 0 for GET breaking-news-plural?filters[URL][$eq]=link
UrlStored(link) == \E n \in 1..Len(articles) : articles[n].URL = link

\* (a catch block that takes the item for a duplicate)
DuplicateCatchSkip == TRUE

\* catch (error) { ...; isDuplicate = false; }
DuplicateCatch == FALSE

\* isDuplicate of an item once its duplicate lookup has settled
IsDuplicate(lookup, link) == IF lookup = "ok" THEN UrlStored(link) ELSE DuplicateCatch

\* (a guard that lets every call through)
FetchNewsNoGuard(isRunning) == FALSE

\* if (this.isRunning) { ...; return; }
FetchNewsGuard(isRunning) == isRunning

\* (a cycle that leaves the flag set when it ends in the catch block)
FinallySkippedOnError(threw) == threw

\* finally { this.isRunning = false; }
FinallyIsRunning(threw) == FALSE

\* a fetchNews call that has passed the guard and awaits GET /api/news-sources
newNewsCycle == [pc |-> "sources", sources |-> <<>>, s |-> 0, items |-> <<>>, k |-> 0]

RemoveAt(seq, n) == SubSeq(seq, 1, n - 1) \o SubSeq(seq, n + 1, Len(seq))

RECURSIVE NextFeedSource(_, _)
\* the next place from s on of a source the loop body fetches
NextFeedSource(sources, s) ==
    IF s > Len(sources) THEN s
    ELSE IF IsFeedSource(sources[s]) THEN s
    ELSE NextFeedSource(sources, s + 1)

RECURSIVE FetchedFrom(_, _)
\* the sources the loop hands to parser.parseURL from place s on
FetchedFrom(sources, s) ==
    LET n == NextFeedSource(sources, s) IN
    IF n > Len(sources) THEN <<>> ELSE <<sources[n]>> \o FetchedFrom(sources, n + 1)

\* the sources one cycle fetches when GET /api/news-sources settles with reply
FetchedSources(reply) == FetchedFrom(ActiveSources(reply), 1)

\* the source selection on its own: the lookup is rejected or answers with up
\* to MaxSourceRecords records, among them a feed source without a URL
MaxSourceRecords == 3

NewsSourceRecords ==
    UNION { Range(r.data) : r \in {x \in NewsSourcesReplies : x.status = "ok"} }
    \cup { [id |-> "4", name |-> "NoUrl", sourceType |-> "rss_feed", isActive |-> TRUE] }

SourcesInit ==
    /\ SchedulersIdle
    /\ callArgs \in
          { [fn |-> "fetchedSources", reply |-> r] :
              r \in {[status |-> "error"]}
                      \cup { [status |-> "ok", data |-> d] :
                               d \in SeqUpTo(NewsSourceRecords, MaxSourceRecords) } }
    /\ callResult = <<>>

FetchedSourcesCall ==
    /\ callResult = <<>>
    /\ callArgs.fn = "fetchedSources"
    /\ callResult' = <<FetchedSources(callArgs.reply)>>
    /\ UNCHANGED <<callArgs, schedulerVars>>

SourcesNext == FetchedSourcesCall

SpecSources == SourcesInit /\ [][SourcesNext]_vars

\* the store has answered with at least one source whose isActive is true
StoreHasActiveSource ==
    /\ callArgs.reply.status = "ok"
    /\ \E n \in 1..Len(callArgs.reply.data) : callArgs.reply.data[n].isActive = TRUE

FeedWithUrl(source) == source.sourceType = "rss_feed" /\ "url" \in DOMAIN source

\* C13: a news cycle goes through exactly the store's sources whose active
\* flag is true when there is at least one, and through the built-in sources
\* when the lookup fails or yields no active source; of these it fetches the
\* feed sources with a URL, in order, so a source that is inactive or is not
\* a feed source with a URL is never fetched.
C13_ActiveFeedSourcesFetched ==
    callResult # <<>> =>
        /\ StoreHasActiveSource =>
              callResult[1] = SelectSeq(callArgs.reply.data,
                                        LAMBDA src : src.isActive = TRUE /\ FeedWithUrl(src))
        /\ ~StoreHasActiveSource => callResult[1] = builtInNewsSources
        /\ \A n \in 1..Len(callResult[1]) :
              callResult[1][n].isActive = TRUE /\ FeedWithUrl(callResult[1][n])

\* the store held an inactive feed before an active one, and only the active
\* feed was fetched
C13_Witness ==
    /\ callResult # <<>>
    /\ StoreHasActiveSource
    /\ \E n \in 1..Len(callArgs.reply.data) :
          callArgs.reply.data[n].isActive = FALSE /\ FeedWithUrl(callArgs.reply.data[n])
    /\ Len(callResult[1]) = 1
    /\ callResult[1][1].isActive = TRUE

\* for (const source of activeSources): on to the source at s or, after the
\* last one, to the count check
ToSource(c, s) ==
    LET n == NextFeedSource(c.sources, s) IN
    [c EXCEPT !.pc = IF n > Len(c.sources) THEN "count" ELSE "feed",
              !.s = n, !.items = <<>>, !.k = 0]

\* for (const item of articles): on to the item at k or to the next source
ToItem(c, k) ==
    IF k > Len(c.items) THEN ToSource(c, c.s + 1)
    ELSE [c EXCEPT !.pc = "duplicate", !.k = k]

\* fetchNews() up to its first await, called on scheduler i whose fields are sched
fetchNews(i, sched) ==
    /\ fetchNewsCalls' = [fetchNewsCalls EXCEPT ![i] = @ + 1]
    /\ IF FetchNewsGuard(sched.isRunning)
         THEN /\ newsSchedulers' = [newsSchedulers EXCEPT ![i] = sched]
              /\ newsCycles' = newsCycles
         ELSE /\ newsSchedulers' = [newsSchedulers EXCEPT
                                      ![i] = [sched EXCEPT !.isRunning = TRUE,
                                                           !.fetchCount = @ + 1]]
              /\ newsCycles' = [newsCycles EXCEPT ![i] = Append(@, newNewsCycle)]

\* scheduler.start(): settings, first fetchNews() and setInterval
NewsSchedulerStart(i) ==
    /\ ~processExited
    /\ ~newsSchedulers[i].started
    /\ fetchNews(i, [newsSchedulers[i] EXCEPT !.started = TRUE])
    /\ UNCHANGED <<newsLog, articles, videoVars, apiFaults, processExited, pureVars>>

\* bootstrap.js: new NewsScheduler(); setImmediate(() => newsScheduler.start())
BootstrapNewsScheduler == NewsSchedulerStart("bootstrap")

\* controller startNewsScheduler: a new NewsScheduler per request, once the
\* server is up
startNewsScheduler ==
    /\ newsSchedulers["bootstrap"].started
    /\ NewsSchedulerStart("manual")

\* setInterval(() => { this.fetchNews(); }, ...)
NewsIntervalCallback(i) ==
    /\ ~processExited
    /\ newsSchedulers[i].started
    /\ fetchNewsCalls[i] < MaxFetchNewsCalls
    /\ fetchNews(i, newsSchedulers[i])
    /\ UNCHANGED <<newsLog, articles, videoVars, apiFaults, processExited, pureVars>>

\* the cycle n of scheduler i moves on to c
NewsCycleStep(i, n, c) ==
    /\ newsCycles' = [newsCycles EXCEPT ![i] = [@ EXCEPT ![n] = c]]
    /\ UNCHANGED <<newsSchedulers, fetchNewsCalls, newsLog>>

\* the cycle n of scheduler i leaves fetchNews through catch (threw) or the
\* end of try, and finally
NewsCycleReturn(i, n, threw) ==
    /\ newsCycles' = [newsCycles EXCEPT ![i] = RemoveAt(@, n)]
    /\ newsSchedulers' = [newsSchedulers EXCEPT ![i].isRunning = FinallyIsRunning(threw)]
    /\ newsLog' = [newsLog EXCEPT ![i] = IF threw THEN "failed" ELSE "completed"]
    /\ UNCHANGED fetchNewsCalls

\* GET /api/news-sources settles
ResolveSources(i, n) ==
    /\ ~processExited
    /\ n \in 1..Len(newsCycles[i])
    /\ newsCycles[i][n].pc = "sources"
    /\ \E reply \in Settled(NewsSourcesReplies) :
          NewsCycleStep(i, n, ToSource([newsCycles[i][n] EXCEPT !.sources = ActiveSources(reply)], 1))
    /\ UNCHANGED <<articles, videoVars, apiFaults, processExited, pureVars>>

\* (a catch block that leaves the loop over the sources)
SourceCatchLeavesLoop(c) == [c EXCEPT !.pc = "count", !.s = Len(c.sources) + 1, !.items = <<>>, !.k = 0]

\* catch (sourceError) { console.log(...) }: on to the next source
SourceCatch(c) == ToSource(c, c.s + 1)

\* (a count that takes every POST for a created article)
CreatedAfterAnyPost(post, totalCreated) == totalCreated + 1

\* totalCreated++ after the POST has resolved; a rejected POST goes to catch (postError)
CreatedAfterPost(post, totalCreated) == IF post = "ok" THEN totalCreated + 1 ELSE totalCreated

\* parser.parseURL(source.url) settles, then getNewsSettings()
FetchFeed(i, n) ==
    /\ ~processExited
    /\ n \in 1..Len(newsCycles[i])
    /\ newsCycles[i][n].pc = "feed"
    /\ LET c == newsCycles[i][n] IN
       \E feed \in Settled(FeedReplies), reply \in Settled(CycleSettingsReplies) :
          IF feed.status = "error"
            THEN NewsCycleStep(i, n, SourceCatch(c))
            ELSE NewsCycleStep(i, n,
                     ToItem([c EXCEPT !.items = FeedSlice(feed.items, getNewsSettings(reply).value)], 1))
    /\ UNCHANGED <<articles, videoVars, apiFaults, processExited, pureVars>>

\* the duplicate lookup of an item settles
CheckDuplicate(i, n) ==
    /\ ~processExited
    /\ n \in 1..Len(newsCycles[i])
    /\ newsCycles[i][n].pc = "duplicate"
    /\ LET c == newsCycles[i][n] IN
       \E lookup \in Outcomes :
          LET isDuplicate == IsDuplicate(lookup, c.items[c.k].link)
          IN  IF isDuplicate
                THEN NewsCycleStep(i, n, ToItem(c, c.k + 1))
                ELSE NewsCycleStep(i, n, [c EXCEPT !.pc = "create"])
    /\ UNCHANGED <<articles, videoVars, apiFaults, processExited, pureVars>>

\* getNewsSettings(), shouldModerateContent and POST /api/breaking-news-plural
CreateArticle(i, n) ==
    /\ ~processExited
    /\ n \in 1..Len(newsCycles[i])
    /\ newsCycles[i][n].pc = "create"
    /\ LET c == newsCycles[i][n]
           item == c.items[c.k]
       IN  \E reply \in Settled(CycleSettingsReplies), post \in Outcomes :
              LET settings == getNewsSettings(reply).value
                  cleanContent == CleanContent(item, settings)
              IN  /\ NewsCycleStep(i, n, ToItem(c, c.k + 1))
                  /\ IF shouldModerateContent(item.title, cleanContent, settings).shouldModerate
                       THEN articles' = articles
                       ELSE IF post = "ok" /\ Len(articles) < MaxArticles
                         THEN articles' = Append(articles, [URL |-> item.link, Title |-> item.title,
                                                            Summary |-> cleanContent])
                         ELSE articles' = articles
    /\ UNCHANGED <<videoVars, apiFaults, processExited, pureVars>>

\* GET /api/breaking-news-plural settles, then getNewsSettings() and the limit check
CountArticles(i, n) ==
    /\ ~processExited
    /\ n \in 1..Len(newsCycles[i])
    /\ newsCycles[i][n].pc = "count"
    /\ \E count \in Outcomes, reply \in Settled(CycleSettingsReplies) :
          IF count = "error"
            THEN NewsCycleReturn(i, n, TRUE)
            ELSE IF Len(articles) > getNewsSettings(reply).value.maxArticleLimit
              THEN NewsCycleStep(i, n, [newsCycles[i][n] EXCEPT !.pc = "cleanup"])
              ELSE NewsCycleReturn(i, n, FALSE)
    /\ UNCHANGED <<articles, videoVars, apiFaults, processExited, pureVars>>

\* this.cleanupManager.trigger() settles
CleanupTrigger(i, n) ==
    /\ ~processExited
    /\ n \in 1..Len(newsCycles[i])
    /\ newsCycles[i][n].pc = "cleanup"
    /\ \E trigger \in Outcomes : NewsCycleReturn(i, n, trigger = "error")
    /\ UNCHANGED <<articles, videoVars, apiFaults, processExited, pureVars>>

\* a step of a fetchNews call in progress
NewsCycleNext ==
    \E i \in SchedulerInstances, n \in 1..MaxFetchNewsCalls :
       \/ ResolveSources(i, n)
       \/ FetchFeed(i, n)
       \/ CheckDuplicate(i, n)
       \/ CreateArticle(i, n)
       \/ CountArticles(i, n)
       \/ CleanupTrigger(i, n)

NewsInit ==
    NoCall /\ NewsIdle /\ VideoIdle /\ youtubeApiKey = FALSE /\ apiFaults = TRUE /\ processExited = FALSE

\* the NewsScheduler that bootstrap.js starts
NewsNext ==
    \/ BootstrapNewsScheduler
    \/ \E i \in SchedulerInstances : NewsIntervalCallback(i)
    \/ NewsCycleNext

SpecNews == NewsInit /\ [][NewsNext]_vars

\* C1: on one NewsScheduler, a fetchNews call made while an earlier call on
\* that scheduler is still in progress is dropped: it leaves fetchCount, the
\* cycles in progress (so no source is fetched for it) and the store as they
\* are; hence at most one cycle is in progress per scheduler at any time.
C1_TriggerWhileRunningDropped ==
    /\ [](\A i \in SchedulerInstances : Len(newsCycles[i]) <= 1)
    /\ [][\A i \in SchedulerInstances :
            (fetchNewsCalls'[i] # fetchNewsCalls[i] /\ Len(newsCycles[i]) > 0) =>
                /\ newsSchedulers'[i].fetchCount = newsSchedulers[i].fetchCount
                /\ newsCycles' = newsCycles
                /\ articles' = articles]_vars

\* a call of the interval timer has been dropped while the first cycle of the
\* scheduler was creating an article
C1_Witness ==
    /\ fetchNewsCalls["bootstrap"] = 2
    /\ newsSchedulers["bootstrap"].fetchCount = 1
    /\ Len(newsCycles["bootstrap"]) = 1
    /\ newsCycles["bootstrap"][1].pc = "create"

\* C3: isRunning is true from the moment a fetchNews call has passed the guard
\* (before the sources are resolved) until that call returns, and is false
\* whenever no such call is in progress, whether the cycle ended normally or
\* in the catch block after an error of the count check or the cleanup trigger
\* (errors of the source lookup and of a feed are handled inside the cycle).
C3_FlagClearedOnEveryReturn ==
    \A i \in SchedulerInstances :
       newsSchedulers[i].isRunning <=> Len(newsCycles[i]) > 0

\* the first cycle of the scheduler has ended in the catch block and the
\* scheduler is idle again
C3_Witness ==
    /\ newsLog["bootstrap"] = "failed"
    /\ newsSchedulers["bootstrap"].fetchCount = 1
    /\ Len(newsCycles["bootstrap"]) = 0
    /\ ~newsSchedulers["bootstrap"].isRunning

---------------------------------------------------------------------------
(* AlternativeVideoScheduler: start, the timer chain and the steps of       *)
(* performFetch                                                             *)

MaxVideoCycles == 2

MaxVideos == 2

\* performCleanup keeps at most this many videos
KeepVideos == 50

\* this.builtInTopics
builtInTopics ==
    << [Title |-> <<"T", "h", "a", "i", "l", "a", "n", "d", " ", "T", "r", "a", "v", "e", "l">>,
        Category |-> "Travel", Priority |-> 1, IsActive |-> TRUE],
       [Title |-> <<"P", "a", "t", "t", "a", "y", "a", " ", "T", "o", "u", "r", "i", "s", "m">>,
        Category |-> "Travel", Priority |-> 1, IsActive |-> TRUE],
       [Title |-> <<"B", "a", "n", "g", "k", "o", "k", " ", "S", "t", "r", "e", "e", "t", " ", "F", "o", "o", "d">>,
        Category |-> "Food", Priority |-> 2, IsActive |-> TRUE],
       [Title |-> <<"T", "h", "a", "i", " ", "C", "u", "l", "t", "u", "r", "e">>,
        Category |-> "Culture", Priority |-> 2, IsActive |-> TRUE],
       [Title |-> <<"I", "s", "l", "a", "n", "d", " ", "H", "o", "p", "p", "i", "n", "g", " ", "T", "h", "a", "i", "l", "a", "n", "d">>,
        Category |-> "Adventure", Priority |-> 2, IsActive |-> TRUE],
       [Title |-> <<"T", "h", "a", "i", " ", "T", "e", "m", "p", "l", "e", "s">>,
        Category |-> "Culture", Priority |-> 3, IsActive |-> TRUE],
       [Title |-> <<"M", "u", "a", "y", " ", "T", "h", "a", "i", " ", "T", "r", "a", "i", "n", "i", "n", "g">>,
        Category |-> "Sports", Priority |-> 3, IsActive |-> TRUE],
       [Title |-> <<"T", "h", "a", "i", " ", "C", "o", "o", "k", "i", "n", "g", " ", "C", "l", "a", "s", "s", "e", "s">>,
        Category |-> "Food", Priority |-> 3, IsActive |-> TRUE],
       [Title |-> <<"S", "c", "u", "b", "a", " ", "D", "i", "v", "i", "n", "g", " ", "T", "h", "a", "i", "l", "a", "n", "d">>,
        Category |-> "Adventure", Priority |-> 2, IsActive |-> TRUE],
       [Title |-> <<"B", "a", "n", "g", "k", "o", "k", " ", "N", "i", "g", "h", "t", "l", "i", "f", "e">>,
        Category |-> "Entertainment", Priority |-> 3, IsActive |-> TRUE] >>

\* getEmergencyTopics()
getEmergencyTopics ==
    << [Title |-> <<"T", "h", "a", "i", "l", "a", "n", "d">>,
        Category |-> "Travel", Priority |-> 1, IsActive |-> TRUE, Source |-> "emergency"],
       [Title |-> <<"P", "a", "t", "t", "a", "y", "a">>,
        Category |-> "Travel", Priority |-> 1, IsActive |-> TRUE, Source |-> "emergency"],
       [Title |-> <<"B", "a", "n", "g", "k", "o", "k">>,
        Category |-> "Travel", Priority |-> 1, IsActive |-> TRUE, Source |-> "emergency"],
       [Title |-> <<"T", "h", "a", "i", " ", "F", "o", "o", "d">>,
        Category |-> "Food", Priority |-> 2, IsActive |-> TRUE, Source |-> "emergency"],
       [Title |-> <<"T", "o", "u", "r", "i", "s", "m">>,
        Category |-> "Travel", Priority |-> 2, IsActive |-> TRUE, Source |-> "emergency"] >>

\* what GET trending-tags-videos?filters[active][$eq]=true settles with
TrendingTagReplies ==
    { [status |-> "error"],
      [status |-> "ok", data |-> <<>>],
      [status |-> "ok",
       data |-> << [tag |-> <<"S", "o", "n", "g", "k", "r", "a", "n">>, category |-> "Events",
                    priority |-> "Medium", active |-> TRUE],
                   [tag |-> <<"B", "e", "a", "c", "h">>, category |-> "Tourism",
                    priority |-> "High", active |-> TRUE],
                   [tag |-> <<"M", "a", "r", "k", "e", "t">>, category |-> "Shopping",
                    priority |-> "Low", active |-> TRUE] >>] }

\* what GET trusted-channels-videos?filters[active]..&filters[verification_status].. settles with
VerifiedChannelReplies ==
    { [status |-> "error"],
      [status |-> "ok",
       data |-> << [channel_name |-> <<"N", "o", "m", "a", "d">>, category |-> "Culture",
                    trust_level |-> "High"],
                   [category |-> "Food", trust_level |-> "Medium"] >>] }

\* trendingTags.map(tag => ({ Title: tag.tag, ... }))
TopicOfTag(tag) ==
    [Title |-> tag.tag, Category |-> tag.category,
     Priority |-> IF tag.priority = "High" THEN 1 ELSE IF tag.priority = "Medium" THEN 2 ELSE 3,
     IsActive |-> tag.active, Source |-> "trending-tags-video"]

\* one element of generateTopicsFromTrustedChannels
TopicOfChannel(channel) ==
    LET channelName == FieldOr(channel, "channel_name", <<"U", "n", "k", "n", "o", "w", "n">>)
        channelCategory == FieldOr(channel, "category", "Entertainment")
        lower == toLowerCase(channelName)
    IN  [Title |-> channelName \o <<" ", "C", "o", "n", "t", "e", "n", "t">>,
         Category |-> IF includes(lower, <<"t", "r", "a", "v", "e", "l">>)
                           \/ includes(lower, <<"n", "o", "m", "a", "d">>) THEN "Travel"
                      ELSE IF includes(lower, <<"f", "o", "o", "d">>)
                           \/ includes(lower, <<"c", "o", "o", "k", "i", "n", "g">>) THEN "Food"
                      ELSE channelCategory,
         Priority |-> IF channel.trust_level = "High" THEN 1 ELSE 2,
         IsActive |-> TRUE, Source |-> "trusted_channel"]

\* generateTopicsFromTrustedChannels(trustedChannels)
generateTopicsFromTrustedChannels(trustedChannels) ==
    LET first3 == SubSeq(trustedChannels, 1, IF Len(trustedChannels) < 3 THEN Len(trustedChannels) ELSE 3)
    IN  [n \in 1..Len(first3) |-> TopicOfChannel(first3[n])]

\* (the tiers with the trusted channels asked before the trending tags)
ActiveTopicsChannelsFirst(trending, trusted) ==
    LET fromTags == IF trending.status = "ok"
                      THEN [n \in 1..Len(trending.data) |-> TopicOfTag(trending.data[n])]
                      ELSE <<>>
        fromChannels == IF trusted.status = "ok" /\ Len(trusted.data) > 0
                          THEN generateTopicsFromTrustedChannels(trusted.data)
                          ELSE <<>>
        builtIn == SelectSeq(builtInTopics, LAMBDA t : t.IsActive)
    IN  IF Len(fromChannels) > 0 THEN fromChannels
        ELSE IF Len(fromTags) > 0 THEN fromTags
        ELSE IF Len(builtIn) > 0 THEN builtIn
        ELSE getEmergencyTopics

\* step 1 of performFetch: trending tags, else topics of verified trusted
\* channels, else the built-in topics, else the emergency topics
ActiveTopics(trending, trusted) ==
    LET fromTags == IF trending.status = "ok"
                      THEN [n \in 1..Len(trending.data) |-> TopicOfTag(trending.data[n])]
                      ELSE <<>>
        fromChannels == IF trusted.status = "ok" /\ Len(trusted.data) > 0
                          THEN generateTopicsFromTrustedChannels(trusted.data)
                          ELSE <<>>
        builtIn == SelectSeq(builtInTopics, LAMBDA t : t.IsActive)
    IN  IF Len(fromTags) > 0 THEN fromTags
        ELSE IF Len(fromChannels) > 0 THEN fromChannels
        ELSE IF Len(builtIn) > 0 THEN builtIn
        ELSE getEmergencyTopics

\* the topic tiers on their own: each lookup is rejected or answers with up to
\* MaxTopicRecords records
MaxTopicRecords == 2

TrendingTagRecords == UNION { Range(r.data) : r \in {x \in TrendingTagReplies : x.status = "ok"} }

VerifiedChannelRecords ==
    UNION { Range(r.data) : r \in {x \in VerifiedChannelReplies : x.status = "ok"} }

TopicsInit ==
    /\ SchedulersIdle
    /\ callArgs \in
          { [fn |-> "activeTopics", trending |-> tr, trusted |-> ch] :
              tr \in {[status |-> "error"]}
                       \cup { [status |-> "ok", data |-> d] :
                                d \in SeqUpTo(TrendingTagRecords, MaxTopicRecords) },
              ch \in {[status |-> "error"]}
                       \cup { [status |-> "ok", data |-> d] :
                                d \in SeqUpTo(VerifiedChannelRecords, MaxTopicRecords) } }
    /\ callResult = <<>>

ActiveTopicsCall ==
    /\ callResult = <<>>
    /\ callArgs.fn = "activeTopics"
    /\ callResult' = <<ActiveTopics(callArgs.trending, callArgs.trusted)>>
    /\ UNCHANGED <<callArgs, schedulerVars>>

TopicsNext == ActiveTopicsCall

SpecTopics == TopicsInit /\ [][TopicsNext]_vars

\* a tier succeeds with a non-empty result
TrendingTierSucceeds ==
    callArgs.trending.status = "ok" /\ Len(callArgs.trending.data) > 0

TrustedTierSucceeds ==
    callArgs.trusted.status = "ok" /\ Len(callArgs.trusted.data) > 0

\* every topic of the list comes from the given tier, in the tier's order
TopicsFromTags(topics) ==
    /\ Len(topics) = Len(callArgs.trending.data)
    /\ \A n \in 1..Len(topics) :
          /\ topics[n].Source = "trending-tags-video"
          /\ topics[n].Title = callArgs.trending.data[n].tag

TopicsFromChannels(topics) ==
    /\ Len(topics) = (IF Len(callArgs.trusted.data) < 3
                         THEN Len(callArgs.trusted.data) ELSE 3)
    /\ \A n \in 1..Len(topics) :
          /\ topics[n].Source = "trusted_channel"
          /\ topics[n] = TopicOfChannel(callArgs.trusted.data[n])

\* C12: the topic list of a video cycle is the result of the first tier, in
\* the order trending tags, topics of verified trusted channels, built-in
\* topics, emergency topics, that succeeds with a non-empty result: a failed
\* or empty tier is skipped, a later tier never replaces an earlier non-empty
\* one, and when both store-backed tiers fail the list is the non-empty
\* built-in list, never an error or an empty list.
C12_FirstNonEmptyTier ==
    callResult # <<>> =>
        /\ Len(callResult[1]) > 0
        /\ TrendingTierSucceeds => TopicsFromTags(callResult[1])
        /\ (~TrendingTierSucceeds /\ TrustedTierSucceeds) => TopicsFromChannels(callResult[1])
        /\ (~TrendingTierSucceeds /\ ~TrustedTierSucceeds) => callResult[1] = builtInTopics

\* the trending lookup was rejected while verified trusted channels exist, and
\* the topics were generated from the channels
C12_Witness ==
    /\ callResult # <<>>
    /\ callArgs.trending.status = "error"
    /\ TrustedTierSucceeds
    /\ TopicsFromChannels(callResult[1])

\* checkTrendingTags(): reply is how GET trending-tags-videos?..featured.. settles
checkTrendingTags(reply) ==
    IF reply.status = "error" THEN FALSE ELSE Len(reply.data) > 0

\* results of the YouTube search
SearchResults ==
    [ ok   |-> [videoId |-> "v1", title |-> <<"o", "k">>, description |-> <<>>, channelId |-> "UC1"],
      scam |-> [videoId |-> "v2", title |-> <<"S", "c", "a", "m">>, description |-> <<>>,
                channelId |-> "UC2"] ]

\* what the YouTube search settles with (maxResults: 2)
SearchReplies ==
    { [status |-> "error"],
      [status |-> "ok", items |-> <<>>],
      [status |-> "ok", items |-> <<SearchResults.ok, SearchResults.scam>>] }

\* how the rule lookups of one classification settle: every collection empty;
\* a content-safety keyword without Keyword; a stored safety keyword while the
\* banned-keywords lookup is rejected; the channel UC1 banned
ClassifyEnvs ==
    { [ safety |-> [lookup |-> "ok", keywords |-> <<>>],
        channelLookup |-> "ok", bannedChannels |-> <<>>,
        keywordLookup |-> "ok", bannedKeywords |-> <<>> ],
      [ safety |-> [lookup |-> "ok",
                    keywords |-> << [MatchType |-> "contains", IsActive |-> TRUE] >>],
        channelLookup |-> "ok", bannedChannels |-> <<>>,
        keywordLookup |-> "ok", bannedKeywords |-> <<>> ],
      [ safety |-> [lookup |-> "ok",
                    keywords |-> << [Keyword |-> kwSpam, MatchType |-> "contains",
                                     IsActive |-> TRUE] >>],
        channelLookup |-> "ok", bannedChannels |-> <<>>,
        keywordLookup |-> "error", bannedKeywords |-> <<>> ],
      [ safety |-> [lookup |-> "error", keywords |-> <<>>],
        channelLookup |-> "ok",
        bannedChannels |-> << [channel_id |-> "UC1", active |-> TRUE, ban_level |-> "Permanent"] >>,
        keywordLookup |-> "ok", bannedKeywords |-> <<>> ] }

\* those of ClassifyEnvs that can happen in this run
SettledEnvs ==
    IF apiFaults THEN ClassifyEnvs
    ELSE { env \in ClassifyEnvs : /\ env.safety.lookup = "ok"
                                  /\ env.channelLookup = "ok"
                                  /\ env.keywordLookup = "ok" }

\* the trusted-channels-videos collection as determineApprovalStatus finds it
TrustStores ==
    { <<>>,
      << [channel_id |-> "UC1", active |-> TRUE, verification_status |-> "Verified",
          auto_approve |-> TRUE] >> }

\* (a catch block that lets the error of the cycle escape to the caller)
PerformFetchRethrow(threw) == threw

\* performFetch's catch (error) { ...; this.errors.push(...) }: whether the
\* error reaches the caller of performFetch
PerformFetchCatch(threw) == FALSE

\* a performFetch call awaiting the trending tags; then is "start" when
\* start() awaits it and "timer" when the setTimeout callback does; topics
\* are the topics step 3 goes through
newVideoCycle(then) ==
    [pc |-> "topics", then |-> then, topics |-> <<>>, t |-> 0, results |-> <<>>, r |-> 0,
     currentCount |-> 0]

\* activeTopics.slice(0, 2), the topics step 3 goes through
TopicsOfCycle(activeTopics) ==
    SubSeq(activeTopics, 1, IF Len(activeTopics) < 2 THEN Len(activeTopics) ELSE 2)

\* for (const topic of activeTopics.slice(0, 2)): on to the topic at t, whose
\* videos come from the YouTube search when the API key is configured and are
\* sample videos otherwise, or on to step 4 after the last topic
ToTopic(c, t) ==
    IF t > Len(c.topics)
      THEN [c EXCEPT !.pc = "verify", !.t = t, !.results = <<>>, !.r = 0]
      ELSE [c EXCEPT !.pc = IF youtubeApiKey THEN "search" ELSE "sample",
                     !.t = t, !.results = <<>>, !.r = IF youtubeApiKey THEN 0 ELSE 1]

\* for (const video of videos): on to the result at r or to the next topic
ToResult(c, r) ==
    IF r > Len(c.results) THEN ToTopic(c, c.t + 1)
    ELSE [c EXCEPT !.pc = "result", !.r = r]

\* createSampleVideos(topic), entered for the topic of c
ToSampleVideos(c) == [c EXCEPT !.pc = "sample", !.results = <<>>, !.r = 1]

\* the video_id of sample video r: sample_<title>_<Date.now()>_<r>.  The
\* scheduler, its cycle and the place of the topic stand for the clock value
\* and for the title, which they determine
SampleVideoId(i, cycleCount, c) == <<"sample", i, cycleCount, c.t, c.r>>

\* POST /videos settles
PostVideo(post, videoData) ==
    IF post = "ok" /\ Len(videos) < MaxVideos
      THEN videos' = Append(videos, videoData)
      ELSE videos' = videos

\* performFetch() up to its first await, called on scheduler i whose fields are sched
performFetch(i, sched, then) ==
    /\ videoSchedulers' = [videoSchedulers EXCEPT ![i] = [sched EXCEPT !.cycleCount = @ + 1]]
    /\ videoCycles' = [videoCycles EXCEPT ![i] = Append(@, newVideoCycle(then))]

\* scheduler.start(): isRunning = true and the initial performFetch()
VideoSchedulerStart(i) ==
    /\ ~processExited
    /\ ~videoSchedulers[i].started
    /\ performFetch(i, [videoSchedulers[i] EXCEPT !.started = TRUE, !.isRunning = TRUE], "start")
    /\ UNCHANGED <<trendingChecks, timers, videos, youtubeApiKey, sigintListeners,
                   newsVars, apiFaults, processExited, pureVars>>

\* bootstrap.js: new AlternativeVideoScheduler(); setImmediate(() => videoScheduler.start())
BootstrapVideoScheduler == VideoSchedulerStart("bootstrap")

\* controller startVideoScheduler: a new VideoScheduler per request, once the
\* server is up
startVideoScheduler ==
    /\ videoSchedulers["bootstrap"].started
    /\ VideoSchedulerStart("manual")

\* the cycle n of scheduler i moves on to c
VideoCycleStep(i, n, c) ==
    /\ videoCycles' = [videoCycles EXCEPT ![i] = [@ EXCEPT ![n] = c]]
    /\ UNCHANGED <<videoSchedulers, trendingChecks, timers, sigintListeners>>

\* the cycle n of scheduler i ends, through catch (threw) or not, and its
\* caller goes on: start() with scheduleNextFetch() and process.on('SIGINT'),
\* the timer callback with scheduleNextFetch(); scheduleNextFetch() calls
\* checkTrendingTags() when isRunning
VideoCycleReturn(i, n, threw) ==
    LET c == videoCycles[i][n]
        escaped == PerformFetchCatch(threw)
    IN  /\ videoCycles' = [videoCycles EXCEPT ![i] = RemoveAt(@, n)]
        /\ videoSchedulers' = [videoSchedulers EXCEPT ![i].errors = IF threw THEN @ + 1 ELSE @]
        /\ trendingChecks' = [trendingChecks EXCEPT
                                ![i] = IF ~escaped /\ videoSchedulers[i].isRunning THEN @ + 1 ELSE @]
        /\ sigintListeners' = IF ~escaped /\ c.then = "start"
                                THEN Append(sigintListeners, i) ELSE sigintListeners
        /\ timers' = timers

\* step 1 of performFetch: the trending tags and, when there are none, the
\* verified trusted channels
ResolveTopics(i, n) ==
    /\ ~processExited
    /\ n \in 1..Len(videoCycles[i])
    /\ videoCycles[i][n].pc = "topics"
    /\ \E trending \in Settled(TrendingTagReplies), trusted \in Settled(VerifiedChannelReplies) :
          LET activeTopics == ActiveTopics(trending, trusted) IN
          IF Len(activeTopics) = 0
            THEN VideoCycleReturn(i, n, FALSE)
            ELSE VideoCycleStep(i, n, [videoCycles[i][n] EXCEPT
                                         !.pc = "count", !.topics = TopicsOfCycle(activeTopics)])
    /\ UNCHANGED <<videos, youtubeApiKey, newsVars, apiFaults, processExited, pureVars>>

\* step 2 of performFetch: GET /videos settles
CountVideos(i, n) ==
    /\ ~processExited
    /\ n \in 1..Len(videoCycles[i])
    /\ videoCycles[i][n].pc = "count"
    /\ \E count \in Outcomes :
          IF count = "error"
            THEN VideoCycleReturn(i, n, TRUE)
            ELSE VideoCycleStep(i, n, ToTopic([videoCycles[i][n] EXCEPT !.currentCount = Len(videos)], 1))
    /\ UNCHANGED <<videos, youtubeApiKey, newsVars, apiFaults, processExited, pureVars>>

\* fetchRealYouTubeVideos: the YouTube search settles
SearchVideos(i, n) ==
    /\ ~processExited
    /\ n \in 1..Len(videoCycles[i])
    /\ videoCycles[i][n].pc = "search"
    /\ LET c == videoCycles[i][n] IN
       \E search \in Settled(SearchReplies) :
          IF search.status = "error"
            THEN VideoCycleStep(i, n, ToSampleVideos(c))
            ELSE VideoCycleStep(i, n, ToResult([c EXCEPT !.results = search.items], 1))
    /\ UNCHANGED <<videos, youtubeApiKey, newsVars, apiFaults, processExited, pureVars>>

\* fetchRealYouTubeVideos: one search result is classified and, when it
\* passes, given its approval status and posted
ProcessSearchResult(i, n) ==
    /\ ~processExited
    /\ n \in 1..Len(videoCycles[i])
    /\ videoCycles[i][n].pc = "result"
    /\ LET c == videoCycles[i][n]
           video == c.results[c.r]
       IN  \E env \in SettledEnvs, trust \in TrustStores, post \in Outcomes :
              LET verdict == ClassifyVideo(video.title, video.description, video.channelId, env)
              IN  IF verdict = "raised"
                    THEN VideoCycleStep(i, n, ToSampleVideos(c)) /\ videos' = videos
                    ELSE /\ VideoCycleStep(i, n, ToResult(c, c.r + 1))
                         /\ IF verdict = "create"
                              THEN PostVideo(post,
                                     [video_id |-> <<video.videoId>>,
                                      videostatus |-> determineApprovalStatus(video.channelId, trust, "ok")])
                              ELSE videos' = videos
    /\ UNCHANGED <<youtubeApiKey, newsVars, apiFaults, processExited, pureVars>>

\* createSampleVideos: one of the two sample videos is given its approval
\* status and posted
CreateSampleVideo(i, n) ==
    /\ ~processExited
    /\ n \in 1..Len(videoCycles[i])
    /\ videoCycles[i][n].pc = "sample"
    /\ LET c == videoCycles[i][n] IN
       \E lookup \in Outcomes, post \in Outcomes :
          /\ VideoCycleStep(i, n, IF c.r < 2 THEN [c EXCEPT !.r = c.r + 1] ELSE ToTopic(c, c.t + 1))
          /\ PostVideo(post,
               [video_id |-> SampleVideoId(i, videoSchedulers[i].cycleCount, c),
                videostatus |-> determineApprovalStatus("channel_sample", <<>>, lookup)])
    /\ UNCHANGED <<youtubeApiKey, newsVars, apiFaults, processExited, pureVars>>

\* step 4 of performFetch: GET /videos settles and, when videos were added,
\* the GET of the latest videos
VerifyCount(i, n) ==
    /\ ~processExited
    /\ n \in 1..Len(videoCycles[i])
    /\ videoCycles[i][n].pc = "verify"
    /\ LET c == videoCycles[i][n] IN
       \E final \in Outcomes, latest \in Outcomes :
          IF final = "error" \/ (Len(videos) - c.currentCount > 0 /\ latest = "error")
            THEN VideoCycleReturn(i, n, TRUE)
            ELSE VideoCycleStep(i, n, [c EXCEPT !.pc = "cleanup"])
    /\ UNCHANGED <<videos, youtubeApiKey, newsVars, apiFaults, processExited, pureVars>>

\* step 5, performCleanup(): the oldest videos beyond KeepVideos are deleted,
\* except those whose delete fails; an error of the GET is caught
PerformCleanup(i, n) ==
    /\ ~processExited
    /\ n \in 1..Len(videoCycles[i])
    /\ videoCycles[i][n].pc = "cleanup"
    /\ \E list \in Outcomes :
          IF list = "ok" /\ Len(videos) > KeepVideos
            THEN \E failed \in (IF apiFaults THEN SUBSET (1..(Len(videos) - KeepVideos)) ELSE {{}}) :
                    LET kept == SelectSeq([m \in 1..Len(videos) |-> [at |-> m, video |-> videos[m]]],
                                          LAMBDA e : e.at > Len(videos) - KeepVideos \/ e.at \in failed)
                    IN  videos' = [m \in 1..Len(kept) |-> kept[m].video]
            ELSE videos' = videos
    /\ VideoCycleReturn(i, n, FALSE)
    /\ UNCHANGED <<youtubeApiKey, newsVars, apiFaults, processExited, pureVars>>

\* scheduleNextFetch: checkTrendingTags() settles and setTimeout is called
ScheduleTimer(i) ==
    /\ ~processExited
    /\ trendingChecks[i] > 0
    /\ \E reply \in Settled(TrendingTagReplies) :
          /\ checkTrendingTags(reply) \in BOOLEAN
          /\ trendingChecks' = [trendingChecks EXCEPT ![i] = @ - 1]
          /\ timers' = [timers EXCEPT ![i] = @ + 1]
    /\ UNCHANGED <<videoSchedulers, videoCycles, videos, youtubeApiKey, sigintListeners,
                   newsVars, apiFaults, processExited, pureVars>>

\* the setTimeout callback: if (this.isRunning) { await this.performFetch(); ... }
TimerCallback(i) ==
    /\ ~processExited
    /\ timers[i] > 0
    /\ videoSchedulers[i].cycleCount < MaxVideoCycles
    /\ timers' = [timers EXCEPT ![i] = @ - 1]
    /\ IF videoSchedulers[i].isRunning
         THEN performFetch(i, videoSchedulers[i], "timer")
         ELSE UNCHANGED <<videoSchedulers, videoCycles>>
    /\ UNCHANGED <<trendingChecks, videos, youtubeApiKey, sigintListeners,
                   newsVars, apiFaults, processExited, pureVars>>

\* SIGINT: the first registered listener sets isRunning = false and calls
\* process.exit(0); without a listener the process ends as well
Sigint ==
    /\ ~processExited
    /\ processExited' = TRUE
    /\ videoSchedulers' = IF sigintListeners = <<>> THEN videoSchedulers
                          ELSE [videoSchedulers EXCEPT ![Head(sigintListeners)].isRunning = FALSE]
    /\ videoCycles' = [i \in SchedulerInstances |-> <<>>]
    /\ trendingChecks' = [i \in SchedulerInstances |-> 0]
    /\ timers' = [i \in SchedulerInstances |-> 0]
    /\ UNCHANGED <<videos, youtubeApiKey, sigintListeners, newsVars, apiFaults, pureVars>>

\* a step of a performFetch call in progress
VideoCycleNext ==
    \E i \in SchedulerInstances, n \in 1..MaxVideoCycles :
       \/ ResolveTopics(i, n)
       \/ CountVideos(i, n)
       \/ SearchVideos(i, n)
       \/ ProcessSearchResult(i, n)
       \/ CreateSampleVideo(i, n)
       \/ VerifyCount(i, n)
       \/ PerformCleanup(i, n)

VideoInit ==
    /\ NoCall /\ NewsIdle /\ VideoIdle
    /\ youtubeApiKey \in BOOLEAN /\ apiFaults = TRUE /\ processExited = FALSE

\* the AlternativeVideoScheduler that bootstrap.js starts
VideoNext ==
    \/ BootstrapVideoScheduler
    \/ VideoCycleNext
    \/ \E i \in SchedulerInstances : ScheduleTimer(i)
    \/ \E i \in SchedulerInstances : TimerCallback(i)
    \/ Sigint

SpecVideo == VideoInit /\ [][VideoNext]_vars

\* the sum, over the schedulers of one content type, of the cycles in progress
CyclesInProgress(cycles) == Len(cycles["bootstrap"]) + Len(cycles["manual"])

\* the video scheduler's timer chain: cycles in progress, trending lookups in
\* flight and pending timers
TimerChain(i) == Len(videoCycles[i]) + trendingChecks[i] + timers[i]

\* C4: while the video scheduler is not shut down its timer chain has exactly
\* one link (a cycle in progress, a trending lookup in flight or a pending
\* timer); every cycle that ends, also one that failed, is followed by exactly
\* one trending lookup, and every trending lookup that settles, also one that
\* failed, by exactly one timer.
C4_OneNextCycleScheduled ==
    /\ [](\A i \in SchedulerInstances :
            (~processExited /\ videoSchedulers[i].isRunning) => TimerChain(i) = 1)
    /\ [][\A i \in SchedulerInstances :
            (~processExited' /\ Len(videoCycles'[i]) < Len(videoCycles[i])) =>
                /\ trendingChecks'[i] = trendingChecks[i] + 1
                /\ timers'[i] = timers[i]]_vars
    /\ [][\A i \in SchedulerInstances :
            (~processExited' /\ trendingChecks'[i] < trendingChecks[i]) =>
                /\ timers'[i] = timers[i] + 1
                /\ videoCycles'[i] = videoCycles[i]]_vars

\* the second cycle of the scheduler has failed, as the first one had, and
\* its trending lookup has set the one timer of the scheduler
C4_Witness ==
    /\ ~processExited
    /\ videoSchedulers["bootstrap"].cycleCount = 2
    /\ videoSchedulers["bootstrap"].errors = 2
    /\ timers["bootstrap"] = 1
    /\ trendingChecks["bootstrap"] = 0
    /\ Len(videoCycles["bootstrap"]) = 0

\* C5: no two stored articles have the same URL and no two stored videos have
\* the same video_id.
C5_UniqueStableIdentity ==
    /\ \A a, b \in 1..Len(articles) : articles[a].URL = articles[b].URL => a = b
    /\ \A a, b \in 1..Len(videos) : videos[a].video_id = videos[b].video_id => a = b

---------------------------------------------------------------------------
(* The schedulers of bootstrap.js and of the scheduler controller together  *)

\* a run in which no request fails
StartInit ==
    NoCall /\ NewsIdle /\ VideoIdle /\ youtubeApiKey = FALSE /\ apiFaults = FALSE /\ processExited = FALSE

\* the NewsSchedulers of bootstrap.js and of one start request
StartNext ==
    \/ BootstrapNewsScheduler
    \/ startNewsScheduler
    \/ \E i \in SchedulerInstances : NewsIntervalCallback(i)
    \/ NewsCycleNext

SpecStart == StartInit /\ [][StartNext]_vars

\* C2: at most one news cycle and at most one video cycle is in progress at
\* any time, over all schedulers that bootstrap and start requests have started.
C2_OneCyclePerContentType ==
    /\ CyclesInProgress(newsCycles) <= 1
    /\ CyclesInProgress(videoCycles) <= 1

---------------------------------------------------------------------------
(* NewsScheduler.performAdvancedCleanup: the articles a run selects *)

\* 60 * 60 * 1000, the milliseconds of an hour
HourMs == 60 * 60 * 1000

\* truthiness of a field of a stored object; an absent field reads undefined
Truthy(o, f) == IF f \in DOMAIN o THEN o[f] = TRUE ELSE FALSE

\* new Date(currentTime.getTime() - settings.maxArticleAgeHours * 60 * 60 * 1000)
CutoffTime(settings, currentTime) == currentTime - settings.maxArticleAgeHours * HourMs

\* if (settings.preservePinnedArticles && article.isPinned) return false;
\* if (settings.preserveBreakingNews && article.isBreaking) return false;
IsPreserved(settings, article) ==
    \/ settings.preservePinnedArticles /\ Truthy(article, "isPinned")
    \/ settings.preserveBreakingNews /\ Truthy(article, "isBreaking")

\* the filter callback of age_only and of oldArticles
IsOldArticle(settings, cutoffTime, article) ==
    LET shouldDelete == article.publishedAt < cutoffTime IN
    IF IsPreserved(settings, article) THEN FALSE ELSE shouldDelete

\* the place article n of list takes under the comparator
\* (a, b) => new Date(b.publishedAt) - new Date(a.publishedAt): behind every
\* newer article and, Array.prototype.sort being stable, behind the equally
\* old articles that precede it in list
RecencyRank(list, n) ==
    1 + Cardinality({m \in 1..Len(list) :
                        \/ list[m].publishedAt > list[n].publishedAt
                        \/ list[m].publishedAt = list[n].publishedAt /\ m < n})

\* (a sort that puts the oldest article first)
SortOldestFirst(list) ==
    [r \in 1..Len(list) |->
        list[CHOOSE n \in 1..Len(list) :
                1 + Cardinality({m \in 1..Len(list) :
                                    \/ list[m].publishedAt < list[n].publishedAt
                                    \/ list[m].publishedAt = list[n].publishedAt /\ m < n}) = r]]

\* list.sort((a, b) => new Date(b.publishedAt) - new Date(a.publishedAt)): newest first
SortByRecency(list) ==
    [r \in 1..Len(list) |-> list[CHOOSE n \in 1..Len(list) : RecencyRank(list, n) = r]]

\* (no article counted as excess)
NoExcessArticles(settings, list) == <<>>

\* if (list.length > settings.maxArticleLimit)
\*   list.sort(...).slice(settings.maxArticleLimit).filter(preserve checks)
ExcessArticles(settings, list) ==
    IF Len(list) > settings.maxArticleLimit
      THEN SelectSeq(SubSeq(SortByRecency(list), settings.maxArticleLimit + 1, Len(list)),
                     LAMBDA article : ~IsPreserved(settings, article))
      ELSE <<>>

\* case 'age_only'
CleanupAgeOnly(settings, cutoffTime, allArticles) ==
    SelectSeq(allArticles, LAMBDA article : IsOldArticle(settings, cutoffTime, article))

\* case 'count_only'
CleanupCountOnly(settings, allArticles) == ExcessArticles(settings, allArticles)

\* (the old articles left among the remaining ones)
RemainingWithOld(allArticles, oldArticles) == allArticles

\* allArticles.filter(article => !oldArticles.includes(article))
RemainingArticles(allArticles, oldArticles) ==
    SelectSeq(allArticles, LAMBDA article : article \notin Range(oldArticles))

\* case 'both_count_and_age' and default
CleanupBoth(settings, cutoffTime, allArticles) ==
    LET oldArticles == CleanupAgeOnly(settings, cutoffTime, allArticles)
        remainingArticles == RemainingArticles(allArticles, oldArticles)
        excessArticles == ExcessArticles(settings, remainingArticles)
    IN  oldArticles \o excessArticles

\* switch (settings.cleanupMode): articlesToDelete
ArticlesToDelete(settings, currentTime, allArticles) ==
    LET cutoffTime == CutoffTime(settings, currentTime) IN
    CASE settings.cleanupMode = "age_only" -> CleanupAgeOnly(settings, cutoffTime, allArticles)
      [] settings.cleanupMode = "count_only" -> CleanupCountOnly(settings, allArticles)
      [] OTHER -> CleanupBoth(settings, cutoffTime, allArticles)

\* the stored articles of a run: up to MaxStoredArticles of them, each one
\* published 10 (beyond the age limit), 80 or 90 hours after the epoch while
\* the run takes place at hour 100; an article flagged breaking holds
\* IsBreaking, the field fetchNews writes
MaxStoredArticles == 3

ArticleKinds ==
    { [hour |-> 10, isPinned |-> FALSE, IsBreaking |-> FALSE],
      [hour |-> 10, isPinned |-> TRUE,  IsBreaking |-> FALSE],
      [hour |-> 10, isPinned |-> FALSE, IsBreaking |-> TRUE],
      [hour |-> 80, isPinned |-> FALSE, IsBreaking |-> FALSE],
      [hour |-> 80, isPinned |-> TRUE,  IsBreaking |-> FALSE],
      [hour |-> 90, isPinned |-> FALSE, IsBreaking |-> FALSE],
      [hour |-> 90, isPinned |-> TRUE,  IsBreaking |-> FALSE] }

StoredArticle(id, kind) ==
    [id |-> id, publishedAt |-> kind.hour * HourMs,
     isPinned |-> kind.isPinned, IsBreaking |-> kind.IsBreaking]

StoredArticleLists ==
    { [n \in 1..Len(kinds) |-> StoredArticle(n, kinds[n])] :
        kinds \in SeqUpTo(ArticleKinds, MaxStoredArticles) }

\* 60 stored articles without pinned or breaking ones, in the store order
\* given by step
ScenarioArticles(step) ==
    [n \in 1..60 |-> [id |-> n, publishedAt |-> ((n * step) % 61) * HourMs,
                      isPinned |-> FALSE, IsBreaking |-> FALSE]]

CleanupModes == {"age_only", "count_only", "both_count_and_age", "unknown"}

\* the settings of a run: getNewsSettings() with a stored mode, limit and
\* preserve flags
CleanupSettings ==
    { ObjectSpread(builtInNewsSettings,
                   [cleanupMode |-> mode, maxArticleLimit |-> limit,
                    preservePinnedArticles |-> pinned, preserveBreakingNews |-> breaking]) :
        mode \in CleanupModes, limit \in {1, 2}, pinned \in BOOLEAN, breaking \in BOOLEAN }

PlanInit ==
    /\ SchedulersIdle
    /\ callArgs \in
          { [fn |-> "articlesToDelete", settings |-> settings,
             currentTime |-> 100 * HourMs, allArticles |-> list] :
              settings \in CleanupSettings, list \in StoredArticleLists }
          \cup { [fn |-> "articlesToDelete",
                  settings |-> ObjectSpread(builtInNewsSettings, [cleanupMode |-> "count_only"]),
                  currentTime |-> 100 * HourMs, allArticles |-> ScenarioArticles(step)] :
                   step \in {1, 7, 60} }
    /\ callResult = <<>>

ArticlesToDeleteCall ==
    /\ callResult = <<>>
    /\ callArgs.fn = "articlesToDelete"
    /\ callResult' = <<ArticlesToDelete(callArgs.settings, callArgs.currentTime,
                                        callArgs.allArticles)>>
    /\ UNCHANGED <<callArgs, schedulerVars>>

PlanNext == ArticlesToDeleteCall

SpecPlan == PlanInit /\ [][PlanNext]_vars

\* the deletion plan of a call that has returned
PlanReturned == callArgs.fn = "articlesToDelete" /\ callResult # <<>>

PlanIds == {callResult[1][n].id : n \in 1..Len(callResult[1])}

PinnedCount == Cardinality({n \in 1..Len(callArgs.allArticles) : callArgs.allArticles[n].isPinned})

OldestFirst(plan) ==
    \A m, n \in 1..Len(plan) : m < n => plan[m].publishedAt <= plan[n].publishedAt

\* C14: under cleanup mode count_only with the preserve settings on, given N
\* stored items of which M are pinned and a count limit L < N - M, the
\* deletion plan holds exactly N - L items, none of them pinned or breaking,
\* ordered oldest-first.
C14_CountOnlyPlanSize ==
    ( /\ PlanReturned
      /\ callArgs.settings.cleanupMode = "count_only"
      /\ callArgs.settings.preservePinnedArticles
      /\ callArgs.settings.preserveBreakingNews
      /\ callArgs.settings.maxArticleLimit < Len(callArgs.allArticles) - PinnedCount )
    => /\ Len(callResult[1]) = Len(callArgs.allArticles) - callArgs.settings.maxArticleLimit
       /\ \A n \in 1..Len(callResult[1]) :
             ~callResult[1][n].isPinned /\ ~callResult[1][n].IsBreaking
       /\ OldestFirst(callResult[1])

\* no stored article is pinned or flagged breaking
NonePinnedOrBreaking ==
    \A n \in 1..Len(callArgs.allArticles) :
        ~callArgs.allArticles[n].isPinned /\ ~callArgs.allArticles[n].IsBreaking

\* the stored articles the plan leaves in the store
KeptArticles == {a \in Range(callArgs.allArticles) : a.id \notin PlanIds}

\* C15: under cleanup mode count_only with no pinned or breaking items, the
\* deletion plan is exactly the items ranked beyond maxArticleLimit by publish
\* recency: it holds the stored items but for maxArticleLimit of them, each
\* once, and no planned item is more recent than a retained one; with 60
\* stored items and maxArticleLimit 21 exactly 39 items are selected and the
\* 21 most recent are kept, and with at most maxArticleLimit items nothing is
\* selected.
C15_CountOnlyKeepsMostRecent ==
    ( /\ PlanReturned
      /\ callArgs.settings.cleanupMode = "count_only"
      /\ NonePinnedOrBreaking )
    => LET stored == Len(callArgs.allArticles)
           limit == callArgs.settings.maxArticleLimit
           plan == callResult[1]
       IN  /\ stored <= limit => plan = <<>>
           /\ stored > limit =>
                 /\ Len(plan) = stored - limit
                 /\ Cardinality(PlanIds) = Len(plan)
                 /\ Range(plan) \subseteq Range(callArgs.allArticles)
                 /\ Cardinality(KeptArticles) = limit
                 /\ \A kept \in KeptArticles : \A n \in 1..Len(plan) :
                       kept.publishedAt >= plan[n].publishedAt
           /\ (stored = 60 /\ limit = 21) =>
                 /\ Len(plan) = 39
                 /\ Cardinality(KeptArticles) = 21
                 /\ \A kept \in KeptArticles : \A n \in 1..Len(plan) :
                       kept.publishedAt > plan[n].publishedAt

\* the plan for 60 stored articles under the built-in limit of 21 has been
\* computed and holds 39 of them
C15_Witness ==
    /\ PlanReturned
    /\ callArgs.settings.cleanupMode = "count_only"
    /\ NonePinnedOrBreaking
    /\ Len(callArgs.allArticles) = 60
    /\ callArgs.settings.maxArticleLimit = 21
    /\ Len(callResult[1]) = 39

\* C16: in every cleanup mode, no pinned stored article is in the deletion set
\* when preservePinnedArticles is true and no stored article flagged breaking
\* is in the deletion set when preserveBreakingNews is true.
C16_PreservedNeverDeleted ==
    PlanReturned =>
        \A n \in 1..Len(callResult[1]) :
            /\ callArgs.settings.preservePinnedArticles => ~callResult[1][n].isPinned
            /\ callArgs.settings.preserveBreakingNews => ~callResult[1][n].IsBreaking

\* the mode of the call is both_count_and_age or a value the switch does not know
CombinedMode == callArgs.settings.cleanupMode \notin {"age_only", "count_only"}

\* the deletion set the given mode produces on the items and settings of the call
PlanUnderMode(mode) ==
    Range(ArticlesToDelete([callArgs.settings EXCEPT !.cleanupMode = mode],
                           callArgs.currentTime, callArgs.allArticles))

\* the stored article at place n is older than the age cutoff
OlderThanCutoff(n) ==
    callArgs.allArticles[n].publishedAt
       < callArgs.currentTime - callArgs.settings.maxArticleAgeHours * 60 * 60 * 1000

\* the stored article at place n lies beyond the count cutoff among all stored articles
BeyondCountCutoff(n) ==
    /\ Len(callArgs.allArticles) > callArgs.settings.maxArticleLimit
    /\ RecencyRank(callArgs.allArticles, n) > callArgs.settings.maxArticleLimit

---------------------------------------------------------------------------
(* NewsScheduler.performAdvancedCleanup: a whole run *)

\* at most MaxDeleteFailures DELETE requests of a run are rejected
MaxDeleteFailures == 2

\* catch (error) { console.log(`Advanced cleanup failed`) }
CleanupCatch(run) == [run EXCEPT !.pc = "done"]

\* (a loop that a rejected DELETE ends)
AfterDeleteAbortOnFailure(run) ==
    IF run.outcomes[Len(run.outcomes)] = "error" THEN [run EXCEPT !.pc = "done"]
    ELSE IF run.k < Len(run.plan) THEN [run EXCEPT !.k = @ + 1]
    ELSE [run EXCEPT !.pc = "stats"]

\* the end of one turn of the delete loop, whose catch only logs: on to the
\* next article, or to the statistics after the last one
AfterDelete(run) ==
    IF run.k < Len(run.plan) THEN [run EXCEPT !.k = @ + 1] ELSE [run EXCEPT !.pc = "stats"]

\* articlesToDelete.length, the count of updatedStats and of the log line
DeletedCount(run) == Len(run.plan)

\* { ...settings.cleanupStats, totalDeleted: (... || 0) + n, lastDeletedCount: n, ... }
UpdatedStats(settings, currentTime, run) ==
    ObjectSpread(settings.cleanupStats,
                 [totalDeleted |-> FieldOr(settings.cleanupStats, "totalDeleted", 0)
                                      + DeletedCount(run),
                  lastDeletedCount |-> DeletedCount(run),
                  lastCleanupDate |-> currentTime])

\* the run once GET /api/breaking-news-plural has settled and the switch has
\* chosen articlesToDelete; a rejected GET is caught by the outer catch
CleanupRun(settings, currentTime, stored, get) ==
    LET plan == IF get = "ok" THEN ArticlesToDelete(settings, currentTime, stored) ELSE <<>>
        run == [pc |-> IF Len(plan) > 0 THEN "delete" ELSE "done",
                plan |-> plan, k |-> IF Len(plan) > 0 THEN 1 ELSE 0,
                stored |-> stored, attempts |-> <<>>, outcomes |-> <<>>,
                stats |-> <<>>, reported |-> <<>>, raised |-> FALSE]
    IN  IF get = "ok" THEN run ELSE CleanupCatch(run)

\* what a DELETE request names: article.id, video.documentId
ItemKey(item) == IF "documentId" \in DOMAIN item THEN item.documentId ELSE item.id

\* AlternativeVideoScheduler.performCleanup() up to its delete loop: the GET
\* answers the 100 oldest videos and the total; beyond 50 videos the oldest
\* total - 50 of them are to be deleted
VideoCleanupRun(stored, get) ==
    LET data == SubSeq(stored, 1, IF Len(stored) < 100 THEN Len(stored) ELSE 100)
        totalVideos == Len(stored)
        excessCount == totalVideos - KeepVideos
        oldVideos == IF get = "ok" /\ totalVideos > KeepVideos
                       THEN SubSeq(data, 1, IF excessCount < Len(data) THEN excessCount ELSE Len(data))
                       ELSE <<>>
    IN  [pc |-> IF Len(oldVideos) > 0 THEN "delete" ELSE "done",
         plan |-> oldVideos, k |-> IF Len(oldVideos) > 0 THEN 1 ELSE 0,
         stored |-> stored, attempts |-> <<>>, outcomes |-> <<>>,
         stats |-> <<>>, reported |-> <<>>, raised |-> FALSE]

\* the videos of the store, oldest first
VideoStore(total) == [n \in 1..total |-> [documentId |-> n, createdAt |-> n]]

\* the settings of a run: each mode under the limit 1 with both preserve
\* settings on, with the built-in statistics or statistics of earlier runs
RunSettings ==
    { ObjectSpread(builtInNewsSettings,
                   [cleanupMode |-> mode, maxArticleLimit |-> 1, cleanupStats |-> stats]) :
        mode \in {"age_only", "count_only", "both_count_and_age"},
        stats \in {builtInNewsSettings.cleanupStats,
                   [totalDeleted |-> 5, lastDeletedCount |-> 2]} }

RunArticleLists ==
    { [n \in 1..Len(kinds) |-> StoredArticle(n, kinds[n])] :
        kinds \in SeqUpTo({kind \in ArticleKinds : ~kind.IsBreaking /\ (kind.isPinned => kind.hour = 10)},
                          MaxStoredArticles) }

CleanupInit ==
    /\ SchedulersIdle
    /\ callArgs \in
          { [fn |-> "performAdvancedCleanup", settings |-> settings,
             currentTime |-> 100 * HourMs, stored |-> list] :
              settings \in RunSettings, list \in RunArticleLists }
          \cup { [fn |-> "performCleanup", stored |-> VideoStore(total)] :
                   total \in KeepVideos..(KeepVideos + MaxDeleteFailures) }
    /\ callResult = <<>>

\* performAdvancedCleanup(settings) and performCleanup() up to the delete loop
CleanupGet ==
    /\ callResult = <<>>
    /\ callArgs.fn \in {"performAdvancedCleanup", "performCleanup"}
    /\ \E get \in {"ok", "error"} :
          callResult' = IF callArgs.fn = "performCleanup"
                          THEN <<VideoCleanupRun(callArgs.stored, get)>>
                          ELSE <<CleanupRun(callArgs.settings, callArgs.currentTime,
                                            callArgs.stored, get)>>
    /\ UNCHANGED <<callArgs, schedulerVars>>

\* one turn of for (const article of articlesToDelete), or of
\* for (const video of oldVideos): DELETE settles
CleanupDelete ==
    /\ callResult # <<>>
    /\ callArgs.fn \in {"performAdvancedCleanup", "performCleanup"}
    /\ callResult[1].pc = "delete"
    /\ LET run == callResult[1]
           article == run.plan[run.k]
       IN  \E outcome \in {"ok", "error"} :
              /\ outcome = "error" =>
                    Cardinality({n \in 1..Len(run.outcomes) : run.outcomes[n] = "error"})
                       < MaxDeleteFailures
              /\ LET found == \E n \in 1..Len(run.stored) :
                                 ItemKey(run.stored[n]) = ItemKey(article)
                     result == IF outcome = "ok" /\ found THEN "ok" ELSE "error"
                     after == [run EXCEPT
                                 !.attempts = Append(@, ItemKey(article)),
                                 !.outcomes = Append(@, result),
                                 !.stored = IF result = "ok"
                                              THEN SelectSeq(@, LAMBDA a : ItemKey(a) # ItemKey(article))
                                              ELSE @]
                 IN  callResult' = <<AfterDelete(after)>>
    /\ UNCHANGED <<callArgs, schedulerVars>>

\* PUT /api/news-settings with updatedStats settles, then the log line
CleanupStats ==
    /\ callResult # <<>>
    /\ callArgs.fn = "performAdvancedCleanup"
    /\ callResult[1].pc = "stats"
    /\ LET run == callResult[1]
           updatedStats == UpdatedStats(callArgs.settings, callArgs.currentTime, run)
       IN  \E put \in {"ok", "error"} :
              callResult' = <<[run EXCEPT !.pc = "done",
                                          !.stats = IF put = "ok" THEN <<updatedStats>> ELSE <<>>,
                                          !.reported = <<DeletedCount(run)>>]>>
    /\ UNCHANGED <<callArgs, schedulerVars>>

\* deletedCount, counted up behind each DELETE that succeeded, in the log
\* line of performCleanup
VideoCleanupLog ==
    /\ callResult # <<>>
    /\ callArgs.fn = "performCleanup"
    /\ callResult[1].pc = "stats"
    /\ LET run == callResult[1]
           deletedCount == Cardinality({n \in 1..Len(run.outcomes) : run.outcomes[n] = "ok"})
       IN  callResult' = <<[run EXCEPT !.pc = "done", !.reported = <<deletedCount>>]>>
    /\ UNCHANGED <<callArgs, schedulerVars>>

CleanupNext == CleanupGet \/ CleanupDelete \/ CleanupStats \/ VideoCleanupLog

SpecCleanup == CleanupInit /\ [][CleanupNext]_vars

\* the run of a cleanup call that has begun
CleanupRunning ==
    callArgs.fn \in {"performAdvancedCleanup", "performCleanup"} /\ callResult # <<>>

NewsCleanupRunning == callArgs.fn = "performAdvancedCleanup" /\ callResult # <<>>

\* the delete loop of the run is over
DeletesOver == CleanupRunning /\ callResult[1].pc \in {"stats", "done"}

\* the places of the plan whose article lies behind the age cutoff and beyond
\* the count cutoff
OldAndExcess(run) ==
    {n \in 1..Len(run.plan) :
        /\ run.plan[n].publishedAt < CutoffTime(callArgs.settings, callArgs.currentTime)
        /\ \E m \in 1..Len(callArgs.stored) :
              /\ callArgs.stored[m] = run.plan[n]
              /\ RecencyRank(callArgs.stored, m) > callArgs.settings.maxArticleLimit}

\* C18: in every cleanup mode the deletion set holds each item at most once
\* and no item is handed to more than one delete call of a run; so an item
\* that is both older than the age cutoff and outside the count window gets
\* exactly one delete call.
C18_EachItemDeletedOnce ==
    NewsCleanupRunning =>
        LET run == callResult[1] IN
        /\ \A m, n \in 1..Len(run.plan) : run.plan[m].id = run.plan[n].id => m = n
        /\ \A m, n \in 1..Len(run.attempts) : run.attempts[m] = run.attempts[n] => m = n
        /\ DeletesOver =>
              \A n \in OldAndExcess(run) :
                 Cardinality({m \in 1..Len(run.attempts) : run.attempts[m] = run.plan[n].id}) = 1

\* a combined-mode run has gone through its delete loop with an article in
\* the plan that is older than the age cutoff and outside the count window
C18_Witness ==
    /\ NewsCleanupRunning
    /\ DeletesOver
    /\ callArgs.settings.cleanupMode = "both_count_and_age"
    /\ OldAndExcess(callResult[1]) # {}
    /\ Len(callResult[1].plan) > 1

\* the ids of the articles whose DELETE request succeeded so far
SucceededIds(run) == {run.attempts[n] : n \in {m \in 1..Len(run.outcomes) : run.outcomes[m] = "ok"}}

\* C19: in a cleanup run a failed delete does not end the batch: a delete is
\* attempted for every item of the deletion plan, in the plan's order,
\* whichever earlier deletes failed; the run never raises, also when the
\* statistics update fails, and the store stays without exactly the articles
\* whose delete succeeded.
C19_FailedDeleteDoesNotAbort ==
    CleanupRunning =>
        LET run == callResult[1] IN
        /\ ~run.raised
        /\ run.pc = "delete" =>
              run.attempts = [n \in 1..(run.k - 1) |-> ItemKey(run.plan[n])]
        /\ DeletesOver =>
              run.attempts = [n \in 1..Len(run.plan) |-> ItemKey(run.plan[n])]
        /\ Len(run.outcomes) = Len(run.attempts)
        /\ Range(run.stored)
              = {a \in Range(callArgs.stored) : ItemKey(a) \notin SucceededIds(run)}

\* a run has ended in which a delete failed, a later delete succeeded and the
\* statistics update failed; the article deleted is gone from the store
C19_Witness ==
    /\ NewsCleanupRunning
    /\ callResult[1].pc = "done"
    /\ callResult[1].reported # <<>>
    /\ callResult[1].stats = <<>>
    /\ \E m, n \in 1..Len(callResult[1].outcomes) :
          /\ m < n
          /\ callResult[1].outcomes[m] = "error"
          /\ callResult[1].outcomes[n] = "ok"
          /\ \A a \in Range(callResult[1].stored) : ItemKey(a) # callResult[1].attempts[n]

\* C20: the deleted count a cleanup run reports and records, lastDeletedCount
\* and the amount added to totalDeleted, is the number of deletions that
\* succeeded in the run.
C20_RecordedCountIsSucceeded ==
    (CleanupRunning /\ callResult[1].pc = "done" /\ callResult[1].reported # <<>>) =>
        LET run == callResult[1]
            succeeded == Cardinality(SucceededIds(run))
        IN  /\ run.reported[1] = succeeded
            /\ run.stats # <<>> =>
                  /\ run.stats[1].lastDeletedCount = succeeded
                  /\ run.stats[1].totalDeleted
                        = callArgs.settings.cleanupStats.totalDeleted + succeeded

---------------------------------------------------------------------------
(* AlternativeVideoScheduler.scheduleNextFetch: the delay of the next cycle *)

\* Math.floor(Math.random() * 5 + 5) for a Math.random() of tenths / 10
RandomMinutes(tenths) == (tenths * 5 + 50) \div 10

\* nextInterval in milliseconds: hasTrendingTags is what checkTrendingTags()
\* resolved with, currentHour is now.getHours()
NextInterval(hasTrendingTags, tenths, currentHour) ==
    IF hasTrendingTags THEN RandomMinutes(tenths) * 60 * 1000
    ELSE IF currentHour >= 6 /\ currentHour <= 23 THEN 30 * 60 * 1000
    ELSE 2 * 60 * 60 * 1000

\* the local time at which scheduleNextFetch is called, the reply of the
\* featured-trend lookup and the value of Math.random()
DelayInit ==
    /\ SchedulersIdle
    /\ callArgs \in
          { [fn |-> "scheduleNextFetch", reply |-> reply, tenths |-> tenths,
             hour |-> hour, minute |-> minute] :
              reply \in TrendingTagReplies, tenths \in 0..9,
              hour \in 0..23, minute \in {0, 1, 59} }
    /\ callResult = <<>>

ScheduleNextFetchCall ==
    /\ callResult = <<>>
    /\ callArgs.fn = "scheduleNextFetch"
    /\ callResult' = <<NextInterval(checkTrendingTags(callArgs.reply),
                                    callArgs.tenths, callArgs.hour)>>
    /\ UNCHANGED <<callArgs, schedulerVars>>

DelayNext == ScheduleNextFetchCall

SpecDelay == DelayInit /\ [][DelayNext]_vars

\* the lookup reports an active featured trend
FeaturedTrendActive == callArgs.reply.status = "ok" /\ Len(callArgs.reply.data) > 0

\* the local time of day lies in the daytime window 06:00 to 23:00
InDaytimeWindow ==
    /\ callArgs.hour * 60 + callArgs.minute >= 6 * 60
    /\ callArgs.hour * 60 + callArgs.minute <= 23 * 60

\* C21: the delay before the next video cycle is at least 5 and less than 10
\* minutes when the trending lookup reports an active featured trend;
\* otherwise exactly 30 minutes when the local time of day is within the
\* daytime window 06:00 to 23:00; otherwise exactly 2 hours.
C21_DelayByTrendAndDaytime ==
    (callArgs.fn = "scheduleNextFetch" /\ callResult # <<>>) =>
        IF FeaturedTrendActive
          THEN callResult[1] >= 5 * 60 * 1000 /\ callResult[1] < 10 * 60 * 1000
          ELSE IF InDaytimeWindow THEN callResult[1] = 30 * 60 * 1000
          ELSE callResult[1] = 2 * 60 * 60 * 1000

---------------------------------------------------------------------------
(* One news item on its way into the store: the loop body of fetchNews and *)
(* the breaking-news service's processArticle                              *)

\* the loop body of fetchNews for one item: the duplicate lookup, then
\* getNewsSettings(), shouldModerateContent and the POST
SchedulerItem(item, lookup, reply, post) ==
    LET isDuplicate == IsDuplicate(lookup, item.link)
        settings == getNewsSettings(reply).value
        cleanContent == CleanContent(item, settings)
        moderated == shouldModerateContent(item.title, cleanContent, settings).shouldModerate
    IN  [isDuplicate |-> isDuplicate,
         moderated |-> ~isDuplicate /\ moderated,
         created |-> IF ~isDuplicate /\ ~moderated /\ post = "ok"
                       THEN <<[URL |-> item.link, Title |-> item.title, Summary |-> cleanContent]>>
                       ELSE <<>>]

\* checkModerationKeywords(title, summary) with the settings getSettings() returns
checkModerationKeywords(title, summary, settings) ==
    IF ~FieldOr(settings, "autoModerationEnabled", FALSE) THEN "approved"
    ELSE IF ModerationLoop(FieldOr(settings, "moderationKeywords", <<>>), 1,
                           toLowerCase(Template2(title, summary))).shouldModerate
           THEN "needs_review"
           ELSE "approved"

\* the duplicate stage of processArticle: a rejected findMany is thrown into the
\* catch of processArticle, which returns null
ExistingFound(found, url) == IF found = "error" THEN Raised ELSE Returned(UrlStored(url))

\* processArticle(article): found is how the lookup by URL settles, reply how
\* the settings lookup of getSettings settles, create how entityService.create settles
processArticle(article, found, reply, create) ==
    IF ExistingFound(found, article.link).threw
      THEN [isDuplicate |-> <<>>, moderated |-> FALSE, created |-> <<>>]
    ELSE IF ExistingFound(found, article.link).value
           THEN [isDuplicate |-> <<TRUE>>, moderated |-> FALSE, created |-> <<>>]
    ELSE LET moderationStatus ==
                 checkModerationKeywords(article.title, article.contentSnippet,
                                         getSettings(reply).value)
         IN  [isDuplicate |-> <<FALSE>>,
              moderated |-> moderationStatus = "needs_review",
              created |-> IF create = "ok"
                            THEN <<[URL |-> article.link, Title |-> article.title,
                                    Summary |-> article.contentSnippet,
                                    moderationStatus |-> moderationStatus]>>
                            ELSE <<>>]

\* the breaking-news collection before the item arrives
\* the number of times the duplicate check of one candidate is repeated
MaxLookups == 2

ItemStores ==
    { <<>>,
      << [URL |-> "u1", Title |-> <<"o", "k">>, Summary |-> <<"n", "e", "w", "s">>] >>,
      << [URL |-> "u3", Title |-> <<"S", "c", "a", "m">>, Summary |-> <<>>] >> }

\* how the settings lookup of the service settles
ServiceSettingsReplies ==
    { [status |-> "error"],
      [status |-> "ok", value |-> <<>>],
      [status |-> "ok", value |-> << [autoModerationEnabled |-> FALSE] >>] }

IngestInit ==
    /\ newsSchedulers = [i \in SchedulerInstances |-> newNewsScheduler]
    /\ fetchNewsCalls = [i \in SchedulerInstances |-> 0]
    /\ newsCycles = [i \in SchedulerInstances |-> <<>>]
    /\ newsLog = [i \in SchedulerInstances |-> "none"]
    /\ articles \in ItemStores
    /\ VideoIdle /\ youtubeApiKey = FALSE /\ apiFaults = FALSE /\ processExited = FALSE
    /\ callArgs \in
          { [fn |-> "fetchNewsItem", item |-> FeedItems[f], lookup |-> lookup,
             reply |-> reply, post |-> post] :
              f \in DOMAIN FeedItems, lookup \in {"ok", "error"},
              reply \in CycleSettingsReplies, post \in {"ok", "error"} }
          \cup { [fn |-> "processArticle", item |-> FeedItems[f], lookup |-> lookup,
                  reply |-> reply, post |-> post] :
                   f \in DOMAIN FeedItems, lookup \in {"ok", "error"},
                   reply \in ServiceSettingsReplies, post \in {"ok", "error"} }
          \cup { [fn |-> "duplicateCheck", of |-> of, item |-> FeedItems[f]] :
                   of \in {"fetchNews", "processArticle"}, f \in DOMAIN FeedItems }
    /\ callResult = <<>>

\* one item goes through the loop body of fetchNews
FetchNewsItemCall ==
    /\ callResult = <<>>
    /\ callArgs.fn = "fetchNewsItem"
    /\ LET done == SchedulerItem(callArgs.item, callArgs.lookup, callArgs.reply, callArgs.post)
       IN  /\ callResult' = <<done>>
           /\ articles' = articles \o done.created
    /\ UNCHANGED <<callArgs, newsSchedulers, fetchNewsCalls, newsCycles, newsLog,
                   videoVars, apiFaults, processExited>>

\* one article goes through processArticle
ProcessArticleCall ==
    /\ callResult = <<>>
    /\ callArgs.fn = "processArticle"
    /\ LET done == processArticle(callArgs.item, callArgs.lookup, callArgs.reply, callArgs.post)
       IN  /\ callResult' = <<done>>
           /\ articles' = articles \o done.created
    /\ UNCHANGED <<callArgs, newsSchedulers, fetchNewsCalls, newsCycles, newsLog,
                   videoVars, apiFaults, processExited>>

\* the duplicate check of the candidate is made once more; nothing is stored
DuplicateCheckCall ==
    /\ callArgs.fn = "duplicateCheck"
    /\ Len(callResult) < MaxLookups
    /\ \E lookup \in {"ok", "error"} :
          LET verdict == IF callArgs.of = "fetchNews"
                           THEN Returned(IsDuplicate(lookup, callArgs.item.link))
                           ELSE ExistingFound(lookup, callArgs.item.link)
          IN  callResult' = Append(callResult, [lookup |-> lookup, verdict |-> verdict])
    /\ UNCHANGED <<callArgs, schedulerVars>>

IngestNext == FetchNewsItemCall \/ ProcessArticleCall \/ DuplicateCheckCall

SpecIngest == IngestInit /\ [][IngestNext]_vars

\* the item's URL is in the store
ItemUrlStored == \E n \in 1..Len(articles) : articles[n].URL = callArgs.item.link

\* C22: when the duplicate lookup for a news item fails in fetchNews, the item
\* is treated as not a duplicate and goes on to moderation and persistence: it
\* is stored exactly when moderation lets it through and the POST succeeds.
C22_LookupFailureProceeds ==
    (callArgs.fn = "fetchNewsItem" /\ callResult # <<>> /\ callArgs.lookup = "error") =>
        LET settings == getNewsSettings(callArgs.reply).value
            blocked == shouldModerateContent(callArgs.item.title,
                                             CleanContent(callArgs.item, settings),
                                             settings).shouldModerate
        IN  /\ ~callResult[1].isDuplicate
            /\ callResult[1].moderated = blocked
            /\ callResult[1].created # <<>> <=> (~blocked /\ callArgs.post = "ok")
            /\ callResult[1].created # <<>> => articles[Len(articles)].URL = callArgs.item.link

\* the duplicate lookup of an item failed and the item has been stored
C22_Witness ==
    /\ callArgs.fn = "fetchNewsItem"
    /\ callResult # <<>>
    /\ callArgs.lookup = "error"
    /\ callResult[1].created # <<>>
    /\ ItemUrlStored

\* C23 (as stated): checking the same candidate twice against an unchanged
\* store gives the same duplicate verdict both times.
C23_SameVerdictTwice ==
    (callArgs.fn = "duplicateCheck") =>
        \A m, n \in 1..Len(callResult) : callResult[m].verdict = callResult[n].verdict

\* C23 (amended): the verdict is a function of the candidate's URL, the store
\* contents and the outcome of the lookup: a lookup that succeeds gives
\* "duplicate" exactly when the store holds the URL, so successful checks
\* against an unchanged store agree; a lookup that fails gives "not duplicate"
\* in fetchNews and no verdict (the item is skipped) in processArticle.
C23_VerdictByStoreAndLookup ==
    (callArgs.fn = "duplicateCheck") =>
        \A n \in 1..Len(callResult) :
            IF callResult[n].lookup = "ok"
              THEN callResult[n].verdict = Returned(ItemUrlStored)
            ELSE IF callArgs.of = "fetchNews"
              THEN callResult[n].verdict = Returned(FALSE)
              ELSE callResult[n].verdict.threw

\* a stored candidate has been checked twice, both lookups succeeded
C23_Witness ==
    /\ callArgs.fn = "duplicateCheck"
    /\ Len(callResult) >= 2
    /\ ItemUrlStored
    /\ callResult[1].lookup = "ok" /\ callResult[2].lookup = "ok"
    /\ callResult[1].verdict = Returned(TRUE)

\* C27: an item that the moderation check blocks is discarded and never
\* written to the content store: no article whose title or summary contains a
\* moderation keyword of the settings in force is created, neither by the loop
\* body of fetchNews nor by processArticle.
C27_BlockedNeverStored ==
    (callArgs.fn \in {"fetchNewsItem", "processArticle"} /\ callResult # <<>>) =>
        (callResult[1].moderated => callResult[1].created = <<>>)

---------------------------------------------------------------------------
(* The update handler of the news-settings controller, for requests that   *)
(* are in flight together. callResult[1] is the run: the stored            *)
(* news-settings records and each request's position in the handler.       *)

\* the number of update requests in flight
MaxUpdateRequests == 2

\* ctx.request.body.data of a request
UpdateBodies == {"a", "b"}

\* let entity = await strapi.entityService.findMany('api::news-settings.news-settings'):
\* the id of the record found, 0 for none
FoundEntity(records) == IF records = <<>> THEN 0 ELSE records[1].id

\* strapi.entityService.update(uid, id, { data })
UpdatedRecords(records, id, data) ==
    [n \in 1..Len(records) |->
        IF records[n].id = id THEN [id |-> id, data |-> data] ELSE records[n]]

\* strapi.entityService.create(uid, { data })
CreatedRecords(records, data) == Append(records, [id |-> Len(records) + 1, data |-> data])

UpdateInit ==
    /\ SchedulersIdle
    /\ callArgs \in { [fn |-> "update", data |-> data] :
                        data \in [1..MaxUpdateRequests -> UpdateBodies] }
    /\ callResult \in
          { << [records |-> records,
                requests |-> [r \in 1..MaxUpdateRequests |-> [pc |-> "find", entity |-> 0]]] >> :
              records \in {<<>>} \cup { << [id |-> 1, data |-> d] >> : d \in UpdateBodies } }

\* a request reaches the await of findMany
UpdateFind(r) ==
    /\ callResult[1].requests[r].pc = "find"
    /\ \E found \in {"ok", "error"} :
          callResult' =
              << [callResult[1] EXCEPT
                    !.requests[r] =
                        IF found = "ok"
                          THEN [pc |-> "write", entity |-> FoundEntity(callResult[1].records)]
                          ELSE [pc |-> "failed", entity |-> 0]] >>
    /\ UNCHANGED <<callArgs, schedulerVars>>

\* if (entity) update the existing record, else create a new one
UpdateWrite(r) ==
    /\ callResult[1].requests[r].pc = "write"
    /\ \E written \in {"ok", "error"} :
          LET run == callResult[1]
              entity == run.requests[r].entity
          IN  callResult' =
                  << IF written = "error"
                       THEN [run EXCEPT !.requests[r].pc = "failed"]
                     ELSE IF entity # 0
                       THEN [run EXCEPT !.requests[r].pc = "done",
                                        !.records = UpdatedRecords(run.records, entity,
                                                                   callArgs.data[r])]
                       ELSE [run EXCEPT !.requests[r].pc = "done",
                                        !.records = CreatedRecords(run.records,
                                                                   callArgs.data[r])] >>
    /\ UNCHANGED <<callArgs, schedulerVars>>

UpdateNext == \E r \in 1..MaxUpdateRequests : UpdateFind(r) \/ UpdateWrite(r)

SpecUpdate == UpdateInit /\ [][UpdateNext]_vars

\* C24: after any interleaving of settings update requests, including
\* requests that arrive while no settings record exists yet, at most one
\* news-settings record exists.
C24_AtMostOneSettingsRecord ==
    (callArgs.fn = "update") => Len(callResult[1].records) <= 1

---------------------------------------------------------------------------
(* fetchFromActiveSources of the breaking-news service: the loop over the  *)
(* stored feed sources. callResult[1] is the run: the stored news-source   *)
(* records, the position in sourceList and the articles collected so far.  *)

\* the largest number of items a feed yields
MaxItemsPerFeed == 2

\* new Date() of the run, as a number
FetchTime == 7

\* the data of the telemetry update for a source that yielded itemCount items
SourceTelemetry(source, itemCount, now) ==
    [lastFetchedAt |-> now,
     lastFetchStatus |-> IF itemCount > 0 THEN "success" ELSE "pending",
     totalArticlesFetched |-> FieldOr(source, "totalArticlesFetched", 0) + itemCount]

\* strapi.entityService.update('api::news-source.news-source', id, { data })
UpdatedSources(stored, id, data) ==
    [n \in 1..Len(stored) |->
        IF stored[n].id = id THEN ObjectSpread(stored[n], data) ELSE stored[n]]

\* the stored records of the active feed sources: some have never been fetched
StoredFeedSources ==
    UNION { [1..len -> { [name |-> "Feed", rssUrl |-> "f1"],
                         [name |-> "Feed", rssUrl |-> "f1", totalArticlesFetched |-> 3,
                          lastFetchStatus |-> "success"] }] : len \in 1..MaxSourceRecords }

TelemetryInit ==
    /\ SchedulersIdle
    /\ callArgs \in
          { [fn |-> "fetchFromActiveSources",
             sources |-> [n \in 1..Len(list) |-> ObjectSpread(list[n], [id |-> n])]] :
              list \in StoredFeedSources }
    /\ callResult = << [stored |-> callArgs.sources, k |-> 1, allArticles |-> 0] >>

\* one turn of the loop over sourceList: fetchFromRSS, which yields no items
\* when the feed fails, then the telemetry update in its own try/catch
FetchFromSource ==
    /\ callArgs.fn = "fetchFromActiveSources"
    /\ callResult[1].k <= Len(callArgs.sources)
    /\ \E itemCount \in 0..MaxItemsPerFeed, update \in {"ok", "error"} :
          LET run == callResult[1]
              source == callArgs.sources[run.k]
          IN  callResult' =
                  << [stored |-> IF update = "ok"
                                   THEN UpdatedSources(run.stored, source.id,
                                                       SourceTelemetry(source, itemCount,
                                                                       FetchTime))
                                   ELSE run.stored,
                      k |-> run.k + 1,
                      allArticles |-> run.allArticles + itemCount] >>
    /\ UNCHANGED <<callArgs, schedulerVars>>

TelemetryNext == FetchFromSource

SpecTelemetry == TelemetryInit /\ [][TelemetryNext]_vars

\* C25: ingestion never writes to Source records: fetching from a source
\* leaves that source's stored record unchanged.
C25_SourceRecordsUnchanged ==
    (callArgs.fn = "fetchFromActiveSources") => callResult[1].stored = callArgs.sources

---------------------------------------------------------------------------
(* The news cycle when an external call may stay unanswered: no request of *)
(* fetchNews carries a timeout, so its await is left only when the call    *)
(* settles                                                                 *)

\* the call the cycle n of scheduler i is waiting for (the GET of the sources,
\* parser.parseURL, the duplicate lookup, the POST, the GET of the count or
\* the cleanup) never settles: the await never resumes
CallNeverSettles(i, n) ==
    /\ ~processExited
    /\ n \in 1..Len(newsCycles[i])
    /\ newsCycles[i][n].pc # "unanswered"
    /\ NewsCycleStep(i, n, [newsCycles[i][n] EXCEPT !.pc = "unanswered"])
    /\ UNCHANGED <<articles, videoVars, apiFaults, processExited, pureVars>>

\* the continuation of the cycle n of scheduler i after an await
NewsCycleProgress(i, n) ==
    \/ ResolveSources(i, n)
    \/ FetchFeed(i, n)
    \/ CheckDuplicate(i, n)
    \/ CreateArticle(i, n)
    \/ CountArticles(i, n)
    \/ CleanupTrigger(i, n)

NewsAwaitNext ==
    \/ NewsNext
    \/ \E i \in SchedulerInstances, n \in 1..MaxFetchNewsCalls : CallNeverSettles(i, n)

\* the event loop runs the continuation of every await whose call has settled
NewsAwaitFairness ==
    \A i \in SchedulerInstances, n \in 1..MaxFetchNewsCalls : WF_vars(NewsCycleProgress(i, n))

SpecNewsAwait == NewsInit /\ [][NewsAwaitNext]_vars /\ NewsAwaitFairness

\* C26: every started cycle eventually returns to idle: a scheduler whose
\* cycle-in-progress flag is set eventually has it cleared, also when an
\* external call of the cycle never responds.
C26_CycleEventuallyIdle ==
    \A i \in SchedulerInstances :
        newsSchedulers[i].isRunning ~> ~newsSchedulers[i].isRunning

---------------------------------------------------------------------------
(* The rule list of isContentFiltered in another order *)

\* the orders of a list of n rules
PermutationsOf(n) ==
    { p \in [1..n -> 1..n] : \A a, b \in 1..n : a # b => p[a] # p[b] }

\* the rules of list in the order p
Permuted(list, p) == [n \in 1..Len(list) |-> list[p[n]]]

\* C28: the allow/block outcome of isContentFiltered for an item does not
\* depend on the order of the rules: with the stored rules in any other
\* order, also when one of them has no keyword field, the verdict is the same.
C28_RuleOrderIrrelevant ==
    callResult # <<>> =>
        \A p \in PermutationsOf(Len(callArgs.env.bannedKeywords)) :
            isContentFiltered(callArgs.title, callArgs.description, callArgs.channelId,
                              [callArgs.env EXCEPT !.bannedKeywords = Permuted(@, p)])
                = callResult[1]

---------------------------------------------------------------------------
(* Step 3 of performFetch on its own: the loop over activeTopics.slice(0, 2) *)
(* with fetchVideosForTopic for each topic. callResult[1] is the cycle, the  *)
(* videos collection is the store, which starts empty.                       *)

\* the largest number of topics step 1 resolves
MaxResolvedTopics == 3

\* POST /videos settles for a video found or made for the topic
PostTopicVideo(post, videoId, topic) ==
    IF post = "ok"
      THEN videos' = Append(videos, [video_id |-> videoId, source_keyword |-> topic.Title])
      ELSE videos' = videos

TopicLoopInit ==
    /\ NewsIdle /\ VideoIdle
    /\ youtubeApiKey \in BOOLEAN
    /\ apiFaults = TRUE
    /\ processExited = FALSE
    /\ callArgs \in { [fn |-> "topicLoop", activeTopics |-> SubSeq(builtInTopics, 1, len)] :
                        len \in 1..MaxResolvedTopics }
    /\ callResult = << ToTopic([newVideoCycle("start") EXCEPT
                                  !.topics = TopicsOfCycle(callArgs.activeTopics)], 1) >>

\* fetchRealYouTubeVideos: the YouTube search settles
TopicSearch ==
    /\ callArgs.fn = "topicLoop"
    /\ callResult[1].pc = "search"
    /\ LET c == callResult[1] IN
       \E search \in SearchReplies :
          callResult' = << IF search.status = "error"
                             THEN ToSampleVideos(c)
                             ELSE ToResult([c EXCEPT !.results = search.items], 1) >>
    /\ UNCHANGED <<callArgs, schedulerVars>>

\* fetchRealYouTubeVideos: one search result is classified and, when it
\* passes, posted; an error of the classification ends the loop in the catch,
\* which calls createSampleVideos(topic)
TopicSearchResult ==
    /\ callArgs.fn = "topicLoop"
    /\ callResult[1].pc = "result"
    /\ LET c == callResult[1]
           video == c.results[c.r]
       IN  \E env \in ClassifyEnvs, post \in {"ok", "error"} :
              LET verdict == ClassifyVideo(video.title, video.description, video.channelId, env)
              IN  /\ callResult' = << IF verdict = "raised" THEN ToSampleVideos(c)
                                      ELSE ToResult(c, c.r + 1) >>
                  /\ IF verdict = "create"
                       THEN PostTopicVideo(post, <<video.videoId>>, c.topics[c.t])
                       ELSE videos' = videos
    /\ UNCHANGED <<callArgs, newsVars, videoSchedulers, videoCycles, trendingChecks, timers,
                   youtubeApiKey, sigintListeners, apiFaults, processExited>>

\* createSampleVideos: one of the two sample videos is posted
TopicSampleVideo ==
    /\ callArgs.fn = "topicLoop"
    /\ callResult[1].pc = "sample"
    /\ LET c == callResult[1] IN
       \E post \in {"ok", "error"} :
          /\ callResult' = << IF c.r < 2 THEN [c EXCEPT !.r = c.r + 1] ELSE ToTopic(c, c.t + 1) >>
          /\ PostTopicVideo(post, <<"sample", c.t, c.r>>, c.topics[c.t])
    /\ UNCHANGED <<callArgs, newsVars, videoSchedulers, videoCycles, trendingChecks, timers,
                   youtubeApiKey, sigintListeners, apiFaults, processExited>>

TopicLoopNext == TopicSearch \/ TopicSearchResult \/ TopicSampleVideo

SpecTopicLoop == TopicLoopInit /\ [][TopicLoopNext]_vars

\* the number of stored videos that were created for the topic
VideosOfTopic(topic) ==
    Cardinality({ n \in 1..Len(videos) : videos[n].source_keyword = topic.Title })

\* C29: a video cycle fetches videos for at most two topics, whatever the
\* number of topics resolved, and creates at most two videos per topic, so
\* one cycle adds at most four videos to the store.
C29_AtMostTwoTopicsTwoVideosEach ==
    (callArgs.fn = "topicLoop") =>
        /\ Len(callResult[1].topics) <= 2
        /\ \A t \in 1..Len(callResult[1].topics) : VideosOfTopic(callResult[1].topics[t]) <= 2
        /\ Len(videos) <= 4

---------------------------------------------------------------------------
(* The order in which a video cycle goes through the resolved topics *)

\* C30: the topics a video cycle processes are those with the lowest priority
\* numbers among the resolved active topics, and a topic with a lower
\* priority number is never processed after one with a higher number.
C30_AscendingPriority ==
    (callArgs.fn = "activeTopics" /\ callResult # <<>>) =>
        LET activeTopics == callResult[1]
            processed == TopicsOfCycle(activeTopics)
        IN  /\ \A a, b \in 1..Len(processed) :
                  a < b => processed[a].Priority <= processed[b].Priority
            /\ \A a \in 1..Len(processed), n \in (Len(processed) + 1)..Len(activeTopics) :
                  processed[a].Priority <= activeTopics[n].Priority

---------------------------------------------------------------------------
(* The per-source cap of fetchNews on its own: the items of one feed and   *)
(* the settings getNewsSettings() resolves                                  *)

\* the largest number of items in a feed
MaxFeedLen == 3

FeedSliceInit ==
    /\ SchedulersIdle
    /\ callArgs \in { [fn |-> "feedSlice", items |-> items, reply |-> reply] :
                        items \in SeqUpTo({FeedItems[f] : f \in DOMAIN FeedItems}, MaxFeedLen),
                        reply \in NewsSettingsReplies }
    /\ callResult = <<>>

\* const articles = feed.items.slice(0, maxArticlesPerFetch)
FeedSliceCall ==
    /\ callResult = <<>>
    /\ callArgs.fn = "feedSlice"
    /\ callResult' = <<FeedSlice(callArgs.items, getNewsSettings(callArgs.reply).value)>>
    /\ UNCHANGED <<callArgs, schedulerVars>>

FeedSliceNext == FeedSliceCall

SpecFeedSlice == FeedSliceInit /\ [][FeedSliceNext]_vars

\* C31: for every configured value of maxArticlesPerFetch, 0 included, at
\* most maxArticlesPerFetch items of a source's feed are considered, taken
\* from the front of the feed.
C31_AtMostMaxArticlesPerFetch ==
    (callArgs.fn = "feedSlice" /\ callResult # <<>>) =>
        LET maxArticlesPerFetch == getNewsSettings(callArgs.reply).value.maxArticlesPerFetch
        IN  /\ Len(callResult[1]) <= maxArticlesPerFetch
            /\ callResult[1] = SubSeq(callArgs.items, 1, Len(callResult[1]))

---------------------------------------------------------------------------
(* The loop over the sources and the limit check of fetchNews for one      *)
(* cycle, with what the cycle writes to the console and with the stored    *)
(* settings, which an admin may change while the cycle is in progress.     *)
(* callResult[1] is the cycle; the breaking-news store starts empty.       *)

\* the stored news settings before and after the admin's change
SettingsBefore == [maxArticlesPerFetch |-> 2, maxContentLength |-> 100, maxArticleLimit |-> 1]

SettingsAfter ==
    [maxArticlesPerFetch |-> 1, maxContentLength |-> 2, maxArticleLimit |-> 10,
     autoModerationEnabled |-> FALSE]

\* getNewsSettings() when the store answers with the stored settings
ReadSettings(stored) ==
    getNewsSettings([status |-> "ok", body |-> << [data |-> <<stored>>] >>]).value

\* the active sources of the cycle
LoopSources ==
    { << [id |-> "1", name |-> "First", url |-> "http://first/rss",
          sourceType |-> "rss_feed", isActive |-> TRUE],
         [id |-> "2", name |-> "Api", sourceType |-> "news_api", isActive |-> TRUE],
         [id |-> "3", name |-> "Feed", url |-> "http://feed/rss",
          sourceType |-> "rss_feed", isActive |-> TRUE] >>,
      << [id |-> "3", name |-> "Feed", url |-> "http://feed/rss",
          sourceType |-> "rss_feed", isActive |-> TRUE] >> }

SourceLoopInit ==
    /\ SchedulersIdle
    /\ callArgs \in { [fn |-> "sourceLoop", sources |-> sources] : sources \in LoopSources }
    /\ callResult = << ToSource([pc |-> "feed", sources |-> callArgs.sources, s |-> 0,
                                 items |-> <<>>, k |-> 0, totalCreated |-> 0, log |-> <<>>,
                                 stored |-> SettingsBefore, used |-> {}], 1) >>

\* parser.parseURL(source.url) settles, then getNewsSettings() and the slice
LoopFetchFeed ==
    /\ callArgs.fn = "sourceLoop"
    /\ callResult[1].pc = "feed"
    /\ LET c == callResult[1]
           source == c.sources[c.s]
           settings == ReadSettings(c.stored)
       IN  \E feed \in FeedReplies :
              callResult' =
                 << IF feed.status = "error"
                      THEN SourceCatch([c EXCEPT !.log = @ \o << <<"fetching", source.id>>,
                                                                 <<"sourceError", source.id>> >>])
                      ELSE ToItem([c EXCEPT !.items = FeedSlice(feed.items, settings),
                                            !.used = @ \cup {settings},
                                            !.log = Append(@, <<"fetching", source.id>>)], 1) >>
    /\ UNCHANGED <<callArgs, schedulerVars>>

\* the duplicate lookup of an item settles
LoopCheckDuplicate ==
    /\ callArgs.fn = "sourceLoop"
    /\ callResult[1].pc = "duplicate"
    /\ LET c == callResult[1] IN
       \E lookup \in {"ok", "error"} :
          callResult' = << IF IsDuplicate(lookup, c.items[c.k].link)
                             THEN ToItem(c, c.k + 1)
                             ELSE [c EXCEPT !.pc = "create"] >>
    /\ UNCHANGED <<callArgs, schedulerVars>>

\* getNewsSettings(), shouldModerateContent and the POST of the article
LoopCreateArticle ==
    /\ callArgs.fn = "sourceLoop"
    /\ callResult[1].pc = "create"
    /\ LET c == callResult[1]
           item == c.items[c.k]
           settings == ReadSettings(c.stored)
           cleanContent == CleanContent(item, settings)
           read == [c EXCEPT !.used = @ \cup {settings}]
       IN  \E post \in {"ok", "error"} :
              IF shouldModerateContent(item.title, cleanContent, settings).shouldModerate
                THEN /\ callResult' = << ToItem([read EXCEPT !.log = Append(@, <<"moderated", item.link>>)],
                                                c.k + 1) >>
                     /\ articles' = articles
                ELSE /\ callResult' =
                          << ToItem([read EXCEPT
                                       !.totalCreated = CreatedAfterPost(post, @),
                                       !.log = Append(@, <<IF post = "ok" THEN "created"
                                                           ELSE "postFailed", item.link>>)],
                                    c.k + 1) >>
                     /\ articles' = IF post = "ok"
                                      THEN Append(articles, [URL |-> item.link, Title |-> item.title,
                                                             Summary |-> cleanContent])
                                      ELSE articles
    /\ UNCHANGED <<callArgs, newsSchedulers, fetchNewsCalls, newsCycles, newsLog,
                   videoVars, apiFaults, processExited>>

\* GET /api/breaking-news-plural settles, then getNewsSettings() and the limit check
LoopCountArticles ==
    /\ callArgs.fn = "sourceLoop"
    /\ callResult[1].pc = "count"
    /\ LET c == callResult[1]
           settings == ReadSettings(c.stored)
       IN  \E count \in {"ok", "error"} :
              callResult' =
                 << IF count = "error"
                      THEN [c EXCEPT !.pc = "done", !.log = Append(@, <<"failed", "cycle">>)]
                      ELSE [c EXCEPT !.pc = IF Len(articles) > settings.maxArticleLimit
                                              THEN "cleanup" ELSE "done",
                                     !.used = @ \cup {settings},
                                     !.log = Append(@, <<"count", "cycle">>)] >>
    /\ UNCHANGED <<callArgs, schedulerVars>>

\* this.cleanupManager.trigger() settles
LoopCleanupTrigger ==
    /\ callArgs.fn = "sourceLoop"
    /\ callResult[1].pc = "cleanup"
    /\ callResult' = << [callResult[1] EXCEPT !.pc = "done"] >>
    /\ UNCHANGED <<callArgs, schedulerVars>>

\* an admin saves other news settings while the cycle is in progress
AdminChangesSettings ==
    /\ callArgs.fn = "sourceLoop"
    /\ callResult[1].pc # "done"
    /\ callResult[1].stored = SettingsBefore
    /\ callResult' = << [callResult[1] EXCEPT !.stored = SettingsAfter] >>
    /\ UNCHANGED <<callArgs, schedulerVars>>

SourceLoopNext ==
    \/ LoopFetchFeed
    \/ LoopCheckDuplicate
    \/ LoopCreateArticle
    \/ LoopCountArticles
    \/ LoopCleanupTrigger
    \/ AdminChangesSettings

SpecSourceLoop == SourceLoopInit /\ [][SourceLoopNext]_vars

\* the console lines of the cycle of the given kind
LogOf(kind) == SelectSeq(callResult[1].log, LAMBDA e : e[1] = kind)

\* the ids of the cycle's feed sources up to place s, in order
FeedSourceIds(s) ==
    LET c == callResult[1]
        feeds == SelectSeq([n \in 1..Len(c.sources) |-> [at |-> n, source |-> c.sources[n]]],
                           LAMBDA e : e.at <= s /\ IsFeedSource(e.source))
    IN  [n \in 1..Len(feeds) |-> <<"fetching", feeds[n].source.id>>]

\* C32: a failure while fetching or parsing one source does not end the
\* cycle: the sources fetched so far are all feed sources up to the place of
\* the loop, in order, whether or not earlier ones failed, and when the loop
\* is over every feed source has been fetched and the cycle is at its count
\* check or beyond it.
C32_SourceFailureDoesNotEndCycle ==
    (callArgs.fn = "sourceLoop") =>
        LET c == callResult[1] IN
        /\ c.pc = "feed" => LogOf("fetching") = FeedSourceIds(c.s - 1)
        /\ c.pc \in {"duplicate", "create"} => LogOf("fetching") = FeedSourceIds(c.s)
        /\ c.pc \in {"count", "cleanup", "done"} =>
              LogOf("fetching") = FeedSourceIds(Len(c.sources))
        /\ c.pc = "done" => Len(LogOf("count")) + Len(LogOf("failed")) = 1

\* the first source of three failed, the later feed source was fetched and
\* the count check has been made
C32_Witness ==
    /\ callArgs.fn = "sourceLoop"
    /\ Len(callArgs.sources) = 3
    /\ LogOf("sourceError") = << <<"sourceError", "1">> >>
    /\ LogOf("fetching") = << <<"fetching", "1">>, <<"fetching", "3">> >>
    /\ Len(LogOf("created")) > 0
    /\ Len(LogOf("count")) = 1

\* the POST of an article has just been rejected
PostJustFailed ==
    /\ callArgs.fn = "sourceLoop"
    /\ Len(LogOf("postFailed"))' = Len(LogOf("postFailed")) + 1

\* C33: a failed write of one item does not stop the cycle and is not
\* counted: the step in which the POST of an article is rejected leaves the
\* store and totalCreated as they are and takes the cycle to the next item of
\* the same source or, after the last item, to the next source or the count
\* check; and totalCreated is always the number of articles the cycle stored.
C33_FailedWriteNotCounted ==
    [][ /\ PostJustFailed =>
              LET c == callResult[1]
                  next == ToItem(c, c.k + 1)
              IN  /\ articles' = articles
                  /\ callResult[1].totalCreated' = c.totalCreated
                  /\ callResult[1].pc' = next.pc
                  /\ callResult[1].s' = next.s
                  /\ callResult[1].k' = next.k
        /\ (callArgs.fn = "sourceLoop") =>
              /\ callResult[1].totalCreated' = Len(articles')
              /\ Len(LogOf("created"))' = Len(articles') ]_vars

\* the POST of the first item was rejected, a later item has been created and
\* counted, and the cycle is over
C33_Witness ==
    /\ callArgs.fn = "sourceLoop"
    /\ callResult[1].pc = "done"
    /\ Len(callResult[1].log) >= 3
    /\ callResult[1].log[2][1] = "postFailed"
    /\ callResult[1].log[3][1] = "created"
    /\ callResult[1].totalCreated = Len(articles)
    /\ Len(LogOf("postFailed")) = 1

---------------------------------------------------------------------------
(* dynamicCleanupJob: the task of the periodic retention sweep.  A time is  *)
(* its number of milliseconds; lastCleanupRun is stored as the ISO string   *)
(* of a time, which new Date() reads back to the millisecond.               *)

MinuteMs == 60 * 1000

\* (a test that also holds the sweep back at the very end of the period)
TooEarlyAtPeriodEnd(now, lastRun, frequencyMs) == now - lastRun <= frequencyMs

\* (now.getTime() - lastRun.getTime()) < frequencyMs
TooEarly(now, lastRun, frequencyMs) == now - lastRun < frequencyMs

\* the task up to the call of the cleanup controller: TRUE when it makes the
\* call.  found is what findOne settles with: status "error", or status "ok"
\* with value <<>> (null) or <<settings>>
dynamicCleanupJob(found, now) ==
    IF found.status = "error" THEN FALSE                   \* catch (error)
    ELSE IF found.value = <<>> THEN FALSE                  \* !settings
    ELSE LET settings == found.value[1] IN
         IF FieldOr(settings, "cleanupFrequencyMinutes", 0) = 0 THEN FALSE
         ELSE LET frequencyMs == settings.cleanupFrequencyMinutes * MinuteMs IN
              IF "lastCleanupRun" \in DOMAIN settings
                   /\ TooEarly(now, settings.lastCleanupRun, frequencyMs)
                THEN FALSE
                ELSE TRUE

\* the time of the recorded last run in the inputs
SweepLastRun == 1000 * MinuteMs

\* the stored settings of the inputs: with and without a frequency, with and
\* without a recorded last run
SweepSettings ==
    { EmptyObject, [lastCleanupRun |-> SweepLastRun] }
    \cup { [cleanupFrequencyMinutes |-> f] : f \in {0, 15, 60} }
    \cup { [cleanupFrequencyMinutes |-> f, lastCleanupRun |-> SweepLastRun] : f \in {0, 15, 60} }

\* the times at which the trigger fires: around the recorded last run and
\* around the end of each period
SweepTimes ==
    { SweepLastRun + m * MinuteMs + d : m \in {0, 15, 30, 60, 75}, d \in {-1, 0, 1} }

SweepInit ==
    /\ SchedulersIdle
    /\ callArgs \in { [fn |-> "dynamicCleanupJob", found |-> found, now |-> now] :
                        found \in { [status |-> "error"], [status |-> "ok", value |-> <<>>] }
                                    \cup { [status |-> "ok", value |-> <<o>>] : o \in SweepSettings },
                        now \in SweepTimes }
    /\ callResult = <<>>

DynamicCleanupJobCall ==
    /\ callResult = <<>>
    /\ callArgs.fn = "dynamicCleanupJob"
    /\ callResult' = <<dynamicCleanupJob(callArgs.found, callArgs.now)>>
    /\ UNCHANGED <<callArgs, schedulerVars>>

SweepNext == DynamicCleanupJobCall

SpecSweep == SweepInit /\ [][SweepNext]_vars

\* the settings exist and hold a cleanup frequency other than 0
SweepHasFrequency ==
    /\ callArgs.found.status = "ok"
    /\ callArgs.found.value # <<>>
    /\ "cleanupFrequencyMinutes" \in DOMAIN callArgs.found.value[1]
    /\ callArgs.found.value[1].cleanupFrequencyMinutes # 0

\* whole minutes from the recorded last run to the trigger
MinutesSinceLastRun == (callArgs.now - callArgs.found.value[1].lastCleanupRun) \div MinuteMs

\* C34: a trigger of the sweep invokes cleanup if and only if settings exist
\* with a cleanup frequency and either no last run is recorded or at least
\* cleanupFrequencyMinutes minutes have passed since the recorded last run.
C34_SweepWhenDue ==
    (callArgs.fn = "dynamicCleanupJob" /\ callResult # <<>>) =>
        (callResult[1] <=>
            /\ SweepHasFrequency
            /\ \/ "lastCleanupRun" \notin DOMAIN callArgs.found.value[1]
               \/ MinutesSinceLastRun >= callArgs.found.value[1].cleanupFrequencyMinutes)

\* the trigger fired exactly one period after the recorded last run and the
\* cleanup was invoked
C34_Witness ==
    /\ callArgs.fn = "dynamicCleanupJob"
    /\ callResult = <<TRUE>>
    /\ SweepHasFrequency
    /\ "lastCleanupRun" \in DOMAIN callArgs.found.value[1]
    /\ callArgs.now - callArgs.found.value[1].lastCleanupRun
          = callArgs.found.value[1].cleanupFrequencyMinutes * MinuteMs

---------------------------------------------------------------------------
(* NewsScheduler.start, stop and getStatus with the timer of setInterval.  *)
(* callResult[1] is the scheduler: its fields interval, isRunning and       *)
(* fetchCount, the timers of the event loop that call its fetchNews, and    *)
(* what the settings store answers now.                                     *)

\* the number of times the interval timer fires
MaxIntervalFirings == 2

\* (an interval that ignores the settings)
FetchIntervalWithoutSettings(intervalMinutes, settings) ==
    IF intervalMinutes # 0 THEN intervalMinutes ELSE 5

\* intervalMinutes || settings.fetchIntervalMinutes || 5, with 0 for an
\* intervalMinutes that is not given
FetchInterval(intervalMinutes, settings) ==
    IF intervalMinutes # 0 THEN intervalMinutes
    ELSE IF FieldOr(settings, "fetchIntervalMinutes", 0) # 0 THEN settings.fetchIntervalMinutes
    ELSE 5

\* this.fetchNews() as far as the scheduler's fields go
FetchNewsOn(sched) ==
    IF FetchNewsGuard(sched.isRunning) THEN sched
    ELSE [sched EXCEPT !.isRunning = TRUE, !.fetchCount = @ + 1]

\* getStatus().running: !!this.interval
StatusRunning(sched) == sched.interval # <<>>

TimerInit ==
    /\ SchedulersIdle
    /\ callArgs \in { [fn |-> "start", intervalMinutes |-> m, reply |-> reply] :
                        m \in {0, 10}, reply \in NewsSettingsReplies }
    /\ callResult = <<>>

\* start(intervalMinutes): the settings, the first fetchNews() and
\* setInterval, whose handle is not kept
TimerStart ==
    /\ callArgs.fn = "start"
    /\ callResult = <<>>
    /\ LET settings == getNewsSettings(callArgs.reply).value
           fetchInterval == FetchInterval(callArgs.intervalMinutes, settings)
       IN  callResult' =
              << FetchNewsOn([interval |-> <<>>, isRunning |-> FALSE, fetchCount |-> 0,
                              timers |-> <<fetchInterval * MinuteMs>>,
                              fired |-> 0, stopped |-> FALSE, begunAfterStop |-> 0,
                              reply |-> callArgs.reply]) >>
    /\ UNCHANGED <<callArgs, schedulerVars>>

\* the timer of setInterval fires: this.fetchNews()
TimerFires ==
    /\ callArgs.fn = "start"
    /\ callResult # <<>>
    /\ callResult[1].timers # <<>>
    /\ callResult[1].fired < MaxIntervalFirings
    /\ LET sched == callResult[1]
           after == FetchNewsOn(sched)
       IN  callResult' =
              << [after EXCEPT !.fired = @ + 1,
                               !.begunAfterStop =
                                   IF sched.stopped /\ after.fetchCount > sched.fetchCount
                                     THEN @ + 1 ELSE @] >>
    /\ UNCHANGED <<callArgs, schedulerVars>>

\* the cycle in progress ends: finally { this.isRunning = false; }
TimerCycleEnds ==
    /\ callArgs.fn = "start"
    /\ callResult # <<>>
    /\ callResult[1].isRunning
    /\ callResult' = << [callResult[1] EXCEPT !.isRunning = FinallyIsRunning(FALSE)] >>
    /\ UNCHANGED <<callArgs, schedulerVars>>

\* stop(): if (this.interval) { clearInterval(this.interval); this.interval = null; }
TimerStop ==
    /\ callArgs.fn = "start"
    /\ callResult # <<>>
    /\ ~callResult[1].stopped
    /\ LET sched == callResult[1] IN
       callResult' =
          << IF sched.interval # <<>>
               THEN [sched EXCEPT !.timers = <<>>, !.interval = <<>>, !.stopped = TRUE]
               ELSE [sched EXCEPT !.stopped = TRUE] >>
    /\ UNCHANGED <<callArgs, schedulerVars>>

\* the settings store answers differently from now on
TimerSettingsChange ==
    /\ callArgs.fn = "start"
    /\ callResult # <<>>
    /\ callResult[1].reply = callArgs.reply
    /\ \E reply \in NewsSettingsReplies \ {callArgs.reply} :
          callResult' = << [callResult[1] EXCEPT !.reply = reply] >>
    /\ UNCHANGED <<callArgs, schedulerVars>>

TimerNext == TimerStart \/ TimerFires \/ TimerCycleEnds \/ TimerStop \/ TimerSettingsChange

SpecTimer == TimerInit /\ [][TimerNext]_vars

\* start() was called without an interval and has returned
StartedWithoutInterval ==
    callArgs.fn = "start" /\ callArgs.intervalMinutes = 0 /\ callResult # <<>>

\* the settings store was unavailable or held no settings at start
NoSettingsAtStart ==
    \/ callArgs.reply.status = "error"
    \/ callArgs.reply.body = <<>>
    \/ "data" \notin DOMAIN callArgs.reply.body[1]
    \/ callArgs.reply.body[1].data = <<>>

C36_StopEndsCycles ==
    (callArgs.fn = "start" /\ callResult # <<>>) =>
        /\ callResult[1].stopped => callResult[1].begunAfterStop = 0
        /\ StatusRunning(callResult[1]) <=> ~callResult[1].stopped

---------------------------------------------------------------------------
(* The cleanup statistics kept in the stored settings over several runs of
   performAdvancedCleanup, each run under the settings getNewsSettings()
   resolved for it *)

\* the cleanup runs of a behaviour
MaxCleanupRuns == 3

\* the settings store at the start: nothing stored, or settings with the
\* statistics of earlier runs
StatsStores ==
    { <<>>,
      << [cleanupMode |-> "age_only",
          cleanupStats |-> [totalDeleted |-> 5, lastDeletedCount |-> 2]] >> }

\* the articles a run finds: old ones (published at hour 10) and recent ones
StatsArticleLists ==
    { [n \in 1..Len(kinds) |-> StoredArticle(n, kinds[n])] :
        kinds \in SeqUpTo({kind \in ArticleKinds :
                             ~kind.isPinned /\ ~kind.IsBreaking /\ kind.hour # 80},
                          MaxStoredArticles) }

\* what GET /api/news-settings answers for the store, when it answers
StoreReply(stored) == [status |-> "ok", body |-> << [data |-> stored] >>]

\* PUT /api/news-settings { data: { cleanupStats, lastCleanupRun } }: the
\* controller updates the stored entity, or creates it
StoredAfterPut(stored, updatedStats, currentTime) ==
    << ObjectSpread(IF stored = <<>> THEN EmptyObject ELSE stored[1],
                    [cleanupStats |-> updatedStats, lastCleanupRun |-> currentTime]) >>

\* cleanupStats.totalDeleted as the store holds it
StoredTotalDeleted(stored) ==
    IF stored = <<>> THEN 0
    ELSE FieldOr(FieldOr(stored[1], "cleanupStats", EmptyObject), "totalDeleted", 0)

StatsInit ==
    /\ SchedulersIdle
    /\ callArgs \in { [fn |-> "cleanupRuns", stored |-> stored] : stored \in StatsStores }
    /\ callResult = <<>>

StatsStart ==
    /\ callResult = <<>>
    /\ callArgs.fn = "cleanupRuns"
    /\ callResult' = << [stored |-> callArgs.stored,
                         totals |-> <<StoredTotalDeleted(callArgs.stored)>>,
                         deleted |-> <<>>, fallback |-> <<>>] >>
    /\ UNCHANGED <<callArgs, schedulerVars>>

\* one run: getNewsSettings(), performAdvancedCleanup(settings) with its
\* GET of the articles, its DELETEs and its PUT of the statistics
StatsCleanupRun ==
    /\ callResult # <<>>
    /\ callArgs.fn = "cleanupRuns"
    /\ Len(callResult[1].deleted) < MaxCleanupRuns
    /\ \E settingsGet \in {"ok", "error"}, list \in StatsArticleLists, put \in {"ok", "error"} :
          LET seen == callResult[1]
              currentTime == (100 + Len(seen.deleted)) * HourMs
              reply == IF settingsGet = "ok" THEN StoreReply(seen.stored)
                       ELSE [status |-> "error"]
              settings == getNewsSettings(reply).value
              run == CleanupRun(settings, currentTime, list, "ok")
              updatedStats == UpdatedStats(settings, currentTime, run)
              stored == IF Len(run.plan) > 0 /\ put = "ok"
                        THEN StoredAfterPut(seen.stored, updatedStats, currentTime)
                        ELSE seen.stored
          IN  callResult' =
                 << [stored |-> stored,
                     totals |-> Append(seen.totals, StoredTotalDeleted(stored)),
                     deleted |-> Append(seen.deleted, DeletedCount(run)),
                     fallback |-> Append(seen.fallback, settingsGet = "error")] >>
    /\ UNCHANGED <<callArgs, schedulerVars>>

StatsNext == StatsStart \/ StatsCleanupRun

SpecStats == StatsInit /\ [][StatsNext]_vars

\* C37: over any sequence of cleanup runs, under stored or built-in
\* settings, the stored cumulative totalDeleted never decreases, and a run
\* that deletes items increases it by exactly that run's count
C37_TotalDeletedMonotone ==
    (callArgs.fn = "cleanupRuns" /\ callResult # <<>>) =>
        \A n \in 1..Len(callResult[1].deleted) :
           /\ callResult[1].totals[n + 1] >= callResult[1].totals[n]
           /\ callResult[1].deleted[n] > 0 =>
                 callResult[1].totals[n + 1]
                    = callResult[1].totals[n] + callResult[1].deleted[n]

---------------------------------------------------------------------------
(* AlternativeVideoScheduler.performCleanup over stores of every size, the
   ones beyond one page of the GET included *)

\* the numbers of stored videos a run starts from: none, the 50 kept, one
\* more, and one more than the 50 kept and the 100 of a page together
CleanupTotals == {0, KeepVideos, KeepVideos + 1, KeepVideos + 100 + 1}

VideoCleanupInit ==
    /\ SchedulersIdle
    /\ callArgs \in { [fn |-> "performCleanup", stored |-> VideoStore(total)] :
                        total \in CleanupTotals }
    /\ callResult = <<>>

VideoCleanupNext == CleanupGet \/ CleanupDelete \/ VideoCleanupLog

SpecVideoCleanup == VideoCleanupInit /\ [][VideoCleanupNext]_vars

\* performCleanup has returned after a GET that was answered and DELETEs
\* that all succeeded
VideoCleanupCompleted ==
    /\ callArgs.fn = "performCleanup"
    /\ callResult # <<>>
    /\ callResult[1].pc = "done"
    /\ Len(callArgs.stored) > KeepVideos => callResult[1].attempts # <<>>
    /\ \A n \in 1..Len(callResult[1].outcomes) : callResult[1].outcomes[n] = "ok"

\* C38: after performCleanup completes with every delete succeeding, at
\* most 50 videos are stored, whatever the number at the start; the videos
\* removed are the oldest, and nothing is deleted from 50 videos or fewer
C38_AtMostFiftyRemain ==
    VideoCleanupCompleted =>
        /\ Len(callResult[1].stored) <= KeepVideos
        /\ callResult[1].stored
              = SubSeq(callArgs.stored, Len(callResult[1].attempts) + 1, Len(callArgs.stored))
        /\ Len(callArgs.stored) <= KeepVideos => callResult[1].attempts = <<>>

---------------------------------------------------------------------------
(* The settings one news cycle works under *)

\* C39: within one news cycle every item is capped, truncated and moderated
\* under one settings value, and the limit check at the end of the cycle
\* uses that same value, also when an admin changes the stored settings
\* while the cycle is in progress
C39_OneSettingsValuePerCycle ==
    (callArgs.fn = "sourceLoop") => Cardinality(callResult[1].used) <= 1

---------------------------------------------------------------------------
(* The status counters of AlternativeVideoScheduler over several cycles of
   performFetch.  Step 1 resolves the topics inside try blocks of its own
   and ends with the built-in topics at the least; fetchVideosForTopic
   catches its own errors and returns 0, as performCleanup catches its own. *)

\* the cycles of a behaviour
MaxStatusCycles == 3

\* { isRunning, cycleCount, lastFetchTime, successfulFetches, errorCount }
getStatus(sched) ==
    [cycleCount |-> sched.cycleCount, lastFetchTime |-> sched.lastFetchTime,
     successfulFetches |-> sched.successfulFetches, errorCount |-> Len(sched.errors)]

\* catch (error) { this.errors.push({ cycle, error, time: startTime }) } and
\* the lines behind it
FetchCatch(sched) ==
    [sched EXCEPT !.pc = "idle", !.failed = TRUE,
                  !.errors = Append(@, [cycle |-> sched.cycleCount, time |-> sched.startTime])]

StatusInit ==
    /\ SchedulersIdle
    /\ callArgs \in { [fn |-> "performFetch", stored |-> stored] : stored \in 0..1 }
    /\ callResult = << [pc |-> "idle", cycleCount |-> 0, successfulFetches |-> 0,
                        lastFetchTime |-> <<>>, errors |-> <<>>, startTime |-> 0,
                        total |-> callArgs.stored, currentCount |-> 0, actualNew |-> 0,
                        failed |-> FALSE, before |-> <<>>] >>

\* performFetch() is called: this.cycleCount++, startTime, and step 1
PerformFetchBegins ==
    /\ callArgs.fn = "performFetch"
    /\ callResult[1].pc = "idle"
    /\ callResult[1].cycleCount < MaxStatusCycles
    /\ LET sched == callResult[1] IN
       callResult' = << [sched EXCEPT !.pc = "count", !.cycleCount = @ + 1,
                                      !.startTime = sched.cycleCount + 1,
                                      !.failed = FALSE, !.before = <<getStatus(sched)>>] >>
    /\ UNCHANGED <<callArgs, schedulerVars>>

\* step 2: GET /videos settles
FetchCurrentCount ==
    /\ callArgs.fn = "performFetch"
    /\ callResult[1].pc = "count"
    /\ LET sched == callResult[1] IN
       \E get \in {"ok", "error"} :
          callResult' = << IF get = "error" THEN FetchCatch(sched)
                           ELSE [sched EXCEPT !.pc = "topics", !.currentCount = sched.total] >>
    /\ UNCHANGED <<callArgs, schedulerVars>>

\* step 3: the topics of the cycle add videos, or none
FetchTopicVideos ==
    /\ callArgs.fn = "performFetch"
    /\ callResult[1].pc = "topics"
    /\ \E newVideos \in 0..1 :
          callResult' = << [callResult[1] EXCEPT !.pc = "verify", !.total = @ + newVideos] >>
    /\ UNCHANGED <<callArgs, schedulerVars>>

\* step 4: GET /videos settles; if (actualNew > 0) this.successfulFetches++
FetchVerify ==
    /\ callArgs.fn = "performFetch"
    /\ callResult[1].pc = "verify"
    /\ LET sched == callResult[1]
           actualNew == sched.total - sched.currentCount
       IN  \E get \in {"ok", "error"} :
              callResult' =
                 << IF get = "error" THEN FetchCatch(sched)
                    ELSE IF actualNew > 0
                      THEN [sched EXCEPT !.pc = "latest", !.actualNew = actualNew,
                                         !.successfulFetches = @ + 1]
                      ELSE [sched EXCEPT !.pc = "cleanup", !.actualNew = actualNew] >>
    /\ UNCHANGED <<callArgs, schedulerVars>>

\* GET /videos?sort=createdAt:desc&pagination[limit]=actualNew settles
FetchShowLatest ==
    /\ callArgs.fn = "performFetch"
    /\ callResult[1].pc = "latest"
    /\ LET sched == callResult[1] IN
       \E get \in {"ok", "error"} :
          callResult' = << IF get = "error" THEN FetchCatch(sched)
                           ELSE [sched EXCEPT !.pc = "cleanup"] >>
    /\ UNCHANGED <<callArgs, schedulerVars>>

\* this.lastFetchTime = startTime; await this.performCleanup(); the last lines
FetchEnds ==
    /\ callArgs.fn = "performFetch"
    /\ callResult[1].pc = "cleanup"
    /\ LET sched == callResult[1] IN
       callResult' = << [sched EXCEPT !.pc = "idle", !.lastFetchTime = <<sched.startTime>>] >>
    /\ UNCHANGED <<callArgs, schedulerVars>>

StatusNext ==
    \/ PerformFetchBegins
    \/ FetchCurrentCount
    \/ FetchTopicVideos
    \/ FetchVerify
    \/ FetchShowLatest
    \/ FetchEnds

SpecStatus == StatusInit /\ [][StatusNext]_vars

\* C40: the status counters agree with the outcomes of the cycles: a cycle
\* adds exactly one to cycleCount; a cycle that ended in the failure path
\* has added exactly one entry to the error list and has left
\* successfulFetches and lastFetchTime as they were; successfulFetches is
\* never above cycleCount and the error list never shrinks
C40_CountersMatchOutcomes ==
    (callArgs.fn = "performFetch" /\ callResult[1].before # <<>>) =>
        LET sched == callResult[1]
            before == sched.before[1]
            status == getStatus(sched)
        IN  /\ status.cycleCount = before.cycleCount + 1
            /\ status.successfulFetches <= status.cycleCount
            /\ status.errorCount >= before.errorCount
            /\ (sched.pc = "idle" /\ sched.failed) =>
                  /\ status.errorCount = before.errorCount + 1
                  /\ status.successfulFetches = before.successfulFetches
                  /\ status.lastFetchTime = before.lastFetchTime

=============================================================================
